---- MODULE Spec2Model ----
(***************************************************************************)
(* A model of the QR inventory core: the QR payload codec and the hex      *)
(* transcoder of lib/qr-utils.ts, and the inventory store and pool of      *)
(* pre-generated codes kept by the useInventory hook.                      *)
(*                                                                         *)
(* A JavaScript string is modelled as the sequence of its UTF-16 code      *)
(* units (naturals below 65536): "LOC" is <<76, 79, 67>>.  The values      *)
(* that are no string (undefined, null, a thrown URIError) are one-element *)
(* sequences holding a negative number, which no string holds.             *)
(***************************************************************************)
EXTENDS Integers, Sequences, FiniteSets, TLC

VARIABLES
    \* ---- the codec bench (specification SpecCodec) ----
    qr,         \* the payload at hand and how it was made
    hex,        \* the hex text at hand and how it was made
    parsed,     \* what parseQRData returned for qr.payload, or NotRun
    valid,      \* what isValidQRData returned for qr.payload, or NotRun
    unhex,      \* what hexToQRData returned for hex.text, or NotRun
    modal,      \* EditQRModal: its scannedData and what onSave was called with
    \* ---- the inventory hook (specification Spec) ----
    data,             \* useState<InventoryData>
    preGeneratedQRs,  \* useState<PreGeneratedQR[]>
    nextUuid,         \* how many identifiers Crypto.randomUUID has handed out
    now,              \* the clock new Date() reads, one tick per call of the hook
    last,             \* history: the last call of a hook function and its arguments
    \* ---- the backup bench (specification SpecBackup) ----
    file,       \* the parsed JSON of the file the user picked
    validated,  \* what validateBackupData returned for file, or "notrun"
    migrated,   \* what migrateBackupData returned for file, or NoBackup
    migrated2,  \* what migrateBackupData returned for migrated, or NoBackup
    compat,     \* what checkBackupCompatibility returned for file, or NoCompat
    imported,   \* what importBackup resolved with, or that it threw
    \* ---- the hook's calls step by step (specification SpecAsync) ----
    storage,    \* AsyncStorage: what is stored under the two keys
    closure,    \* the data and preGeneratedQRs the callbacks of the render hold
    calls       \* the calls of hook functions in flight

codecVars == <<qr, hex, parsed, valid, unhex, modal>>
hookVars == <<data, preGeneratedQRs, nextUuid, now, last>>
backupVars == <<file, validated, migrated, migrated2, compat, imported>>
asyncVars == <<storage, closure, calls>>
vars == <<qr, hex, parsed, valid, unhex, modal, data, preGeneratedQRs, nextUuid, now, last,
          file, validated, migrated, migrated2, compat, imported,
          storage, closure, calls>>

----------------------------------------------------------------------------
(* Values that are no string. *)

Undefined == <<-1>>
Null == <<-2>>
URIError == <<-3>>
NotRun == <<-4>>

IsString(s) == \A i \in 1..Len(s) : s[i] >= 0

----------------------------------------------------------------------------
(* Characters and string literals of the source. *)

Colon == 58
Dash == 45
Percent == 37
Space == 32

STR_location == <<108, 111, 99, 97, 116, 105, 111, 110>>
STR_area == <<97, 114, 101, 97>>
STR_section == <<115, 101, 99, 116, 105, 111, 110>>
STR_item == <<105, 116, 101, 109>>
STR_pregenerated == <<112, 114, 101, 103, 101, 110, 101, 114, 97, 116, 101, 100>>
STR_LOC == <<76, 79, 67>>
STR_ARE == <<65, 82, 69>>
STR_SEC == <<83, 69, 67>>
STR_ITE == <<73, 84, 69>>
STR_PRE == <<80, 82, 69>>

\* The versions of a backup: BACKUP_VERSION is '2.0'.
STR_1_0 == <<49, 46, 48>>
STR_2_0 == <<50, 46, 48>>
BACKUP_VERSION == STR_2_0
APP_VERSION == <<49, 46, 49, 46, 48>>
STR_good == <<103, 111, 111, 100>>

EntityTypes == {STR_location, STR_area, STR_section, STR_item}

----------------------------------------------------------------------------
(* String primitives of the JavaScript runtime, for the characters the     *)
(* model's alphabets hold.                                                 *)

IsDigit(c) == c >= 48 /\ c <= 57
IsUpperAF(c) == c >= 65 /\ c <= 70
IsLowerAF(c) == c >= 97 /\ c <= 102
IsHexDigit(c) == IsDigit(c) \/ IsUpperAF(c) \/ IsLowerAF(c)

HexValue(c) == IF IsDigit(c) THEN c - 48
               ELSE IF IsUpperAF(c) THEN c - 55
               ELSE c - 87

\* The upper-case hex digit of n in 0..15.
UpperHexDigit(n) == IF n < 10 THEN 48 + n ELSE 55 + n
\* The lower-case hex digit of n in 0..15.
LowerHexDigit(n) == IF n < 10 THEN 48 + n ELSE 87 + n

\* String.prototype.toUpperCase / toLowerCase on the ASCII letters.
ToUpperCase(s) == [i \in 1..Len(s) |-> IF s[i] >= 97 /\ s[i] <= 122 THEN s[i] - 32 ELSE s[i]]
ToLowerCase(s) == [i \in 1..Len(s) |-> IF s[i] >= 65 /\ s[i] <= 90 THEN s[i] + 32 ELSE s[i]]

\* String.prototype.substring(0, n).
Substring0(s, n) == SubSeq(s, 1, IF n < Len(s) THEN n ELSE Len(s))

Includes(s, c) == \E i \in 1..Len(s) : s[i] = c

\* String.prototype.split(c) for a one-character separator: always at least
\* one part ("" splits to [""]).
RECURSIVE Split(_, _)
Split(s, c) ==
    IF ~Includes(s, c) THEN <<s>>
    ELSE LET k == CHOOSE i \in 1..Len(s) : s[i] = c /\ \A j \in 1..(i - 1) : s[j] # c
         IN  <<SubSeq(s, 1, k - 1)>> \o Split(SubSeq(s, k + 1, Len(s)), c)

\* Array.prototype.join(c) for a one-character separator.
RECURSIVE Join(_, _)
Join(parts, c) ==
    IF Len(parts) = 0 THEN <<>>
    ELSE IF Len(parts) = 1 THEN parts[1]
    ELSE parts[1] \o <<c>> \o Join(Tail(parts), c)

\* /\s/: the white space the alphabets hold (space, tab, LF, CR).
IsWhiteSpace(c) == c \in {32, 9, 10, 13}

\* str.replace(/\s/g, '').
StripWhiteSpace(s) == SelectSeq(s, LAMBDA c : ~IsWhiteSpace(c))

\* The characters encodeURIComponent leaves as they are:
\* A-Z a-z 0-9 - _ . ! ~ * ' ( )
IsUnreserved(c) ==
    \/ c >= 65 /\ c <= 90
    \/ c >= 97 /\ c <= 122
    \/ IsDigit(c)
    \/ c \in {45, 95, 46, 33, 126, 42, 39, 40, 41}

\* "%XX" for one octet, upper-case hex.
PercentOctet(b) == <<Percent, UpperHexDigit(b \div 16), UpperHexDigit(b % 16)>>

IsHighSurrogate(c) == c >= 55296 /\ c <= 56319
IsLowSurrogate(c) == c >= 56320 /\ c <= 57343

\* The UTF-8 octets of code point v, each percent-escaped.
EncodeCodePoint(v) ==
    IF v < 128 THEN PercentOctet(v)
    ELSE IF v < 2048 THEN PercentOctet(192 + (v \div 64)) \o PercentOctet(128 + (v % 64))
    ELSE IF v < 65536 THEN
        PercentOctet(224 + (v \div 4096)) \o PercentOctet(128 + ((v \div 64) % 64))
            \o PercentOctet(128 + (v % 64))
    ELSE PercentOctet(240 + (v \div 262144)) \o PercentOctet(128 + ((v \div 4096) % 64))
            \o PercentOctet(128 + ((v \div 64) % 64)) \o PercentOctet(128 + (v % 64))

\* x followed by rest, or the error rest is.
Append1(x, rest) == IF rest = URIError THEN URIError ELSE x \o rest

\* encodeURIComponent(s) from position k on: a URIError for a lone surrogate.
RECURSIVE EncodeFrom(_, _)
EncodeFrom(s, k) ==
    IF k > Len(s) THEN <<>>
    ELSE IF IsUnreserved(s[k]) THEN Append1(<<s[k]>>, EncodeFrom(s, k + 1))
    ELSE IF IsLowSurrogate(s[k]) THEN URIError
    ELSE IF IsHighSurrogate(s[k]) THEN
        IF k + 1 > Len(s) \/ ~IsLowSurrogate(s[k + 1]) THEN URIError
        ELSE Append1(EncodeCodePoint((s[k] - 55296) * 1024 + (s[k + 1] - 56320) + 65536),
                     EncodeFrom(s, k + 2))
    ELSE Append1(EncodeCodePoint(s[k]), EncodeFrom(s, k + 1))

encodeURIComponent(s) == EncodeFrom(s, 1)

\* The octet written "%XX" at position p of s, or -1 when there is none.
OctetAt(s, p) ==
    IF p + 2 <= Len(s) /\ s[p] = Percent /\ IsHexDigit(s[p + 1]) /\ IsHexDigit(s[p + 2])
    THEN 16 * HexValue(s[p + 1]) + HexValue(s[p + 2])
    ELSE -1

\* A continuation octet (10xxxxxx) at position p of s, or -1.
ContinuationAt(s, p) ==
    LET b == OctetAt(s, p) IN IF b >= 128 /\ b <= 191 THEN b ELSE -1

\* The code units of code point v.
CodeUnits(v) ==
    IF v < 65536 THEN <<v>>
    ELSE <<55296 + ((v - 65536) \div 1024), 56320 + ((v - 65536) % 1024)>>

\* decodeURIComponent(s) from position k on: a URIError for an escape that is
\* no "%XX" or whose octets are no well-formed UTF-8.
RECURSIVE DecodeFrom(_, _)
DecodeFrom(s, k) ==
    IF k > Len(s) THEN <<>>
    ELSE IF s[k] # Percent THEN Append1(<<s[k]>>, DecodeFrom(s, k + 1))
    ELSE LET b == OctetAt(s, k) IN
        IF b < 0 THEN URIError
        ELSE IF b < 128 THEN Append1(<<b>>, DecodeFrom(s, k + 3))
        ELSE IF b < 194 \/ b > 244 THEN URIError
        ELSE IF b < 224 THEN
            LET c1 == ContinuationAt(s, k + 3) IN
            IF c1 < 0 THEN URIError
            ELSE Append1(<<(b - 192) * 64 + (c1 - 128)>>, DecodeFrom(s, k + 6))
        ELSE IF b < 240 THEN
            LET c1 == ContinuationAt(s, k + 3)
                c2 == ContinuationAt(s, k + 6)
                v == (b - 224) * 4096 + (c1 - 128) * 64 + (c2 - 128)
            IN  IF c1 < 0 \/ c2 < 0 \/ v < 2048 \/ (v >= 55296 /\ v <= 57343) THEN URIError
                ELSE Append1(<<v>>, DecodeFrom(s, k + 9))
        ELSE
            LET c1 == ContinuationAt(s, k + 3)
                c2 == ContinuationAt(s, k + 6)
                c3 == ContinuationAt(s, k + 9)
                v == (b - 240) * 262144 + (c1 - 128) * 4096 + (c2 - 128) * 64 + (c3 - 128)
            IN  IF c1 < 0 \/ c2 < 0 \/ c3 < 0 \/ v < 65536 \/ v > 1114111 THEN URIError
                ELSE Append1(CodeUnits(v), DecodeFrom(s, k + 12))

decodeURIComponent(s) == DecodeFrom(s, 1)

\* Number.prototype.toString(16) of a code unit, lower case, no padding.
RECURSIVE ToString16(_)
ToString16(n) ==
    IF n < 16 THEN <<LowerHexDigit(n)>>
    ELSE ToString16(n \div 16) \o <<LowerHexDigit(n % 16)>>

\* String.prototype.padStart(2, '0').
PadStart2(s) == IF Len(s) = 0 THEN <<48, 48>> ELSE IF Len(s) = 1 THEN <<48>> \o s ELSE s

\* parseInt(pair, 16) for a text of at most two characters that holds no white
\* space: an optional sign, an optional "0x"/"0X", then the longest run of hex
\* digits; NaN (here -65536, which no parse gives) when that run is empty.
NaN == -65536
ParseInt16(pair) ==
    LET signed == Len(pair) >= 1 /\ pair[1] \in {43, 45}
        body == IF signed THEN Tail(pair) ELSE pair
        sign == IF signed /\ pair[1] = 45 THEN -1 ELSE 1
        digits == IF Len(body) = 2 /\ body[1] = 48 /\ body[2] \in {88, 120}
                  THEN <<>> ELSE body
    IN  IF Len(digits) = 0 \/ ~IsHexDigit(digits[1]) THEN NaN
        ELSE IF Len(digits) = 1 \/ ~IsHexDigit(digits[2]) THEN sign * HexValue(digits[1])
        ELSE sign * (16 * HexValue(digits[1]) + HexValue(digits[2]))

\* String.fromCharCode(n): the code unit n modulo 2^16.
FromCharCode(n) == <<n % 65536>>

----------------------------------------------------------------------------
(* lib/qr-utils.ts *)

\* JavaScript truthiness of an optional string: undefined and '' are falsy.
Truthy(s) == s # Undefined /\ s # Null /\ s # <<>>

\* The n-th identifier Crypto.randomUUID hands out: 8-4-4-4-12 lower-case hex
\* digits, different for different n below 16.
generateUUID(n) ==
    [i \in 1..36 |-> IF i \in {9, 14, 19, 24} THEN Dash ELSE LowerHexDigit((n + i) % 16)]

\* generateQRData(type, name, prefix), with the identifier generateUUID()
\* returned inside it.  A URIError when encodeURIComponent throws.
generateQRData(type, name, prefix, id) ==
    LET typePrefix == Substring0(ToUpperCase(type), 3)
        fullPrefix == IF Truthy(prefix) THEN prefix \o <<Dash>> \o typePrefix ELSE typePrefix
        encoded == encodeURIComponent(name)
    IN  IF encoded = URIError THEN URIError
        ELSE fullPrefix \o <<Colon>> \o id \o <<Colon>> \o encoded

\* generatePreQRCode(prefix), with the identifier generateUUID() returned.
generatePreQRCode(prefix, id) ==
    LET typePrefix == IF Truthy(prefix) THEN prefix \o <<Dash>> \o STR_PRE ELSE STR_PRE
    IN  typePrefix \o <<Colon>> \o id

\* generateBulkQRCodes(count, prefix), the identifiers being those from the
\* first-th on.
generateBulkQRCodes(count, prefix, first) ==
    [i \in 1..count |-> generatePreQRCode(prefix, generateUUID(first + i - 1))]

\* Array.from(qrData).map(char => char.charCodeAt(0)): one element per code
\* point, each the code point's first code unit.
RECURSIVE FirstUnits(_, _)
FirstUnits(s, k) ==
    IF k > Len(s) THEN <<>>
    ELSE IF IsHighSurrogate(s[k]) /\ k + 1 <= Len(s) /\ IsLowSurrogate(s[k + 1])
         THEN <<s[k]>> \o FirstUnits(s, k + 2)
    ELSE <<s[k]>> \o FirstUnits(s, k + 1)

RECURSIVE HexOfUnits(_)
HexOfUnits(units) ==
    IF Len(units) = 0 THEN <<>>
    ELSE PadStart2(ToString16(units[1])) \o HexOfUnits(Tail(units))

qrDataToHex(qrData) == ToUpperCase(HexOfUnits(FirstUnits(qrData, 1)))

\* The loop of hexToQRData from position i of cleanHex on.
RECURSIVE HexLoop(_, _)
HexLoop(cleanHex, i) ==
    IF i > Len(cleanHex) THEN <<>>
    ELSE LET byte == ParseInt16(SubSeq(cleanHex, i, i + 1))
             rest == HexLoop(cleanHex, i + 2)
         IN  IF byte = NaN THEN Null
             ELSE IF rest = Null THEN Null
             ELSE FromCharCode(byte) \o rest

hexToQRData(h) ==
    LET cleanHex == ToUpperCase(StripWhiteSpace(h))
    IN  IF Len(cleanHex) % 2 # 0 THEN Null ELSE HexLoop(cleanHex, 1)

\* clean.match(/.{1,4}/g): the groups of four, the last one shorter.
RECURSIVE GroupsOf4(_)
GroupsOf4(s) ==
    IF Len(s) = 0 THEN <<>>
    ELSE IF Len(s) <= 4 THEN <<s>>
    ELSE <<SubSeq(s, 1, 4)>> \o GroupsOf4(SubSeq(s, 5, Len(s)))

formatHexForDisplay(h) ==
    LET clean == ToUpperCase(StripWhiteSpace(h))
    IN  IF Len(clean) = 0 THEN clean ELSE Join(GroupsOf4(clean), Space)

\* The results of parseQRData: a record of the four fields, null, or a thrown
\* URIError (status "throw").
ParseNull == [status |-> "null", type |-> <<>>, id |-> <<>>, name |-> <<>>, prefix |-> Undefined]
ParseThrow == [status |-> "throw", type |-> <<>>, id |-> <<>>, name |-> <<>>, prefix |-> Undefined]
ParseNotRun == [status |-> "notrun", type |-> <<>>, id |-> <<>>, name |-> <<>>, prefix |-> Undefined]

\* const typeMap = { LOC: 'location', ... }: the codes it maps.
TypeCodes == {STR_LOC, STR_ARE, STR_SEC, STR_ITE, STR_PRE}
typeMap(code) ==
    CASE code = STR_LOC -> STR_location
      [] code = STR_ARE -> STR_area
      [] code = STR_SEC -> STR_section
      [] code = STR_ITE -> STR_item
      [] code = STR_PRE -> STR_pregenerated

\* typeMap[typePrefix] || typePrefix.toLowerCase()
MappedType(typePrefix) ==
    IF typePrefix \in TypeCodes THEN typeMap(typePrefix) ELSE ToLowerCase(typePrefix)

\* nameParts.length > 0 ? decodeURIComponent(nameParts.join(':')) : ''
\* (NameOfNoDecode is the faulty variant that joins and does not decode.)
NameOfNoDecode(nameParts) == IF Len(nameParts) > 0 THEN Join(nameParts, Colon) ELSE <<>>
NameOf(nameParts) ==
    IF Len(nameParts) > 0 THEN decodeURIComponent(Join(nameParts, Colon)) ELSE <<>>

parseQRData(qrData) ==
    LET parts == Split(qrData, Colon) IN
    IF Len(parts) < 2 THEN ParseNull
    ELSE LET typePart == parts[1]
             id == parts[2]
             nameParts == SubSeq(parts, 3, Len(parts))
             name == NameOf(nameParts)
             hasPrefix == Includes(typePart, Dash)
             prefixParts == Split(typePart, Dash)
             prefix == IF hasPrefix
                       THEN Join(SubSeq(prefixParts, 1, Len(prefixParts) - 1), Dash)
                       ELSE Undefined
             typePrefix == IF hasPrefix THEN prefixParts[Len(prefixParts)] ELSE typePart
         IN  IF name = URIError THEN ParseThrow
             ELSE [status |-> "ok", type |-> MappedType(typePrefix), id |-> id,
                   name |-> name, prefix |-> prefix]

\* /^[0-9a-f]{8}-[0-9a-f]{4}-[0-9a-f]{4}-[0-9a-f]{4}-[0-9a-f]{12}$/i
UuidRegexTest(id) ==
    /\ Len(id) = 36
    /\ \A i \in 1..36 : IF i \in {9, 14, 19, 24} THEN id[i] = Dash ELSE IsHexDigit(id[i])

isValidQRData(qrData) ==
    LET parts == Split(qrData, Colon) IN
    IF Len(parts) < 2 THEN FALSE ELSE UuidRegexTest(parts[2])

----------------------------------------------------------------------------
(* The codec bench: inputs drawn from bounded sets, each function of       *)
(* lib/qr-utils.ts applied to the payload or the hex text at hand.         *)

MaxNameLen == 2
MaxScanLen == 3
MaxHexLen == 3

SeqsUpTo(S, n) == UNION {[1..k -> S] : k \in 0..n}

\* Names: ':', '-', '%', ' ' and the non-ASCII letter U+03A9.
NameAlphabet == {Colon, Dash, Percent, Space, 937}
Names == SeqsUpTo(NameAlphabet, MaxNameLen)

\* The identifiers the bench's calls draw.
CodecUuidNumbers == {1, 2}

\* Prefixes: none, '', "A", "A-B", "A:B" and the one-letter prefix U+03A9.
Prefixes == {Undefined, <<>>, <<65>>, <<65, Dash, 66>>, <<65, Colon, 66>>, <<937>>}

\* What a scanner may hand over: the literals of the tests, and every
\* combination of a first segment, an id segment and a tail.
STR_garbage == <<103, 97, 114, 98, 97, 103, 101>>
STR_UNKNOWN == <<85, 78, 75, 78, 79, 87, 78>>
STR_not_a_uuid == <<110, 111, 116, 45, 97, 45, 117, 117, 105, 100>>
ScanLiterals == {STR_garbage, <<>>,
                 STR_UNKNOWN \o <<Colon>> \o <<117, 117, 105, 100>>,
                 STR_LOC \o <<Colon>> \o STR_not_a_uuid \o <<Colon>> \o <<78, 97, 109, 101>>}
ScanTypeParts == {STR_LOC, STR_PRE, STR_UNKNOWN, <<87, Dash>> \o STR_LOC, <<>>}
ScanIds == {generateUUID(1), ToUpperCase(generateUUID(1)), STR_not_a_uuid}
ScanTails == SeqsUpTo({Percent, 52, 49, Colon}, MaxScanLen)
ScanInputs ==
    ScanLiterals
    \cup {t \o <<Colon>> \o i : t \in ScanTypeParts, i \in ScanIds}
    \cup {t \o <<Colon>> \o i \o <<Colon>> \o n : t \in ScanTypeParts, i \in ScanIds, n \in ScanTails}

\* What may be typed as hex: '1', '4', 'a', 'G', 'X', '0', '-', ' '.
HexAlphabet == {49, 52, 97, 71, 88, 48, Dash, Space}
HexInputs == SeqsUpTo(HexAlphabet, MaxHexLen)

NoQR == [src |-> "none", type |-> <<>>, name |-> <<>>, prefix |-> Undefined,
         id |-> <<>>, payload |-> NotRun]
NoHex == [src |-> "none", formatted |-> FALSE, text |-> <<>>]

\* EditQRModal as it opens: scannedData is null, onSave was not called
\* (saved is its argument, via the handler that called it), and neither
\* handler has run.
ModalOpened == [scannedData |-> Null, saved |-> NotRun, via |-> "none",
                hexSubmitted |-> FALSE, scanHandled |-> FALSE]

\* The calls of generateQRData and of generatePreQRCode to make, the scanned
\* payloads and the typed hex texts.
QRDataCalls ==
    {[src |-> "generateQRData", type |-> type, name |-> name, prefix |-> prefix,
      id |-> generateUUID(n), payload |-> NotRun] :
        type \in EntityTypes, name \in Names, prefix \in Prefixes, n \in CodecUuidNumbers}
PreQRCodeCalls ==
    {[src |-> "generatePreQRCode", type |-> STR_pregenerated, name |-> <<>>, prefix |-> prefix,
      id |-> generateUUID(n), payload |-> NotRun] :
        prefix \in Prefixes, n \in CodecUuidNumbers}
Scans ==
    {[src |-> "scan", type |-> <<>>, name |-> <<>>, prefix |-> Undefined,
      id |-> <<>>, payload |-> s] : s \in ScanInputs}
TypedHex == {[src |-> "typed", formatted |-> FALSE, text |-> h] : h \in HexInputs}

CodecInit ==
    /\ \/ qr \in QRDataCalls \cup PreQRCodeCalls \cup Scans /\ hex = NoHex
       \/ qr = NoQR /\ hex \in TypedHex
    /\ parsed = ParseNotRun
    /\ valid = "notrun"
    /\ unhex = NotRun
    /\ modal = ModalOpened

\* The bench at rest, as the hook's specification leaves it.
CodecIdle ==
    /\ qr = NoQR
    /\ hex = NoHex
    /\ parsed = ParseNotRun
    /\ valid = "notrun"
    /\ unhex = NotRun
    /\ modal = ModalOpened

\* The bench applies the functions in one order: the payload is made, parsed
\* and validated, turned to hex and read back, and the hex is then formatted
\* for display and read back again.
DoGenerateQRData ==
    /\ qr.src = "generateQRData"
    /\ qr.payload = NotRun
    /\ qr' = [qr EXCEPT !.payload = generateQRData(qr.type, qr.name, qr.prefix, qr.id)]
    /\ UNCHANGED <<hex, parsed, valid, unhex>>
    /\ UNCHANGED <<modal, hookVars, backupVars, asyncVars>>

DoGeneratePreQRCode ==
    /\ qr.src = "generatePreQRCode"
    /\ qr.payload = NotRun
    /\ qr' = [qr EXCEPT !.payload = generatePreQRCode(qr.prefix, qr.id)]
    /\ UNCHANGED <<hex, parsed, valid, unhex>>
    /\ UNCHANGED <<modal, hookVars, backupVars, asyncVars>>

DoParseQRData ==
    /\ qr.payload # NotRun
    /\ parsed = ParseNotRun
    /\ parsed' = parseQRData(qr.payload)
    /\ UNCHANGED <<qr, hex, valid, unhex>>
    /\ UNCHANGED <<modal, hookVars, backupVars, asyncVars>>

DoIsValidQRData ==
    /\ parsed # ParseNotRun
    /\ valid = "notrun"
    /\ valid' = IF isValidQRData(qr.payload) THEN "true" ELSE "false"
    /\ UNCHANGED <<qr, hex, parsed, unhex>>
    /\ UNCHANGED <<modal, hookVars, backupVars, asyncVars>>

DoQrDataToHex ==
    /\ qr.src \in {"generateQRData", "generatePreQRCode"}
    /\ valid # "notrun"
    /\ hex.src = "none"
    /\ hex' = [src |-> "qrDataToHex", formatted |-> FALSE, text |-> qrDataToHex(qr.payload)]
    /\ UNCHANGED <<qr, parsed, valid, unhex>>
    /\ UNCHANGED <<modal, hookVars, backupVars, asyncVars>>

DoHexToQRData ==
    /\ hex.src # "none"
    /\ unhex = NotRun
    /\ unhex' = hexToQRData(hex.text)
    /\ UNCHANGED <<qr, hex, parsed, valid>>
    /\ UNCHANGED <<modal, hookVars, backupVars, asyncVars>>

DoFormatHexForDisplay ==
    /\ unhex # NotRun
    /\ ~hex.formatted
    /\ hex' = [hex EXCEPT !.formatted = TRUE, !.text = formatHexForDisplay(hex.text)]
    /\ unhex' = NotRun
    /\ UNCHANGED <<qr, parsed, valid>>
    /\ UNCHANGED <<modal, hookVars, backupVars, asyncVars>>

----------------------------------------------------------------------------
(* components/edit-qr-modal.tsx: the handlers of EditQRModal that lead to   *)
(* onSave, which the screens wire to updateXQR.  The hex text at hand is    *)
(* what was typed into the field, the payload at hand what the scanner      *)
(* handed over.                                                             *)

\* handleHexSubmit(): the field holds the typed text in upper case.
handleHexSubmit ==
    /\ hex.src # "none"
    /\ unhex # NotRun
    /\ ~modal.hexSubmitted
    /\ LET hexInput == ToUpperCase(hex.text)
           cleanHex == StripWhiteSpace(hexInput)
           qrData == hexToQRData(cleanHex)
       IN  modal' = IF cleanHex = <<>> THEN [modal EXCEPT !.hexSubmitted = TRUE]
                    ELSE IF ~Truthy(qrData) THEN [modal EXCEPT !.hexSubmitted = TRUE]
                    ELSE IF ~isValidQRData(qrData) THEN [modal EXCEPT !.hexSubmitted = TRUE]
                    ELSE [modal EXCEPT !.hexSubmitted = TRUE, !.saved = qrData,
                                       !.via = "hex", !.scannedData = Null]
    /\ UNCHANGED <<qr, hex, parsed, valid, unhex>>
    /\ UNCHANGED <<hookVars, backupVars, asyncVars>>

\* handleScanResult(data)
\* (handleScanResultNoGate is the faulty variant that keeps every scan.)
handleScanResultNoGate ==
    /\ valid # "notrun"
    /\ ~modal.scanHandled
    /\ modal' = [modal EXCEPT !.scanHandled = TRUE, !.scannedData = qr.payload]
    /\ UNCHANGED <<qr, hex, parsed, valid, unhex>>
    /\ UNCHANGED <<hookVars, backupVars, asyncVars>>

handleScanResult ==
    /\ valid # "notrun"
    /\ ~modal.scanHandled
    /\ modal' = IF ~isValidQRData(qr.payload)
                THEN [modal EXCEPT !.scanHandled = TRUE]
                ELSE [modal EXCEPT !.scanHandled = TRUE, !.scannedData = qr.payload]
    /\ UNCHANGED <<qr, hex, parsed, valid, unhex>>
    /\ UNCHANGED <<hookVars, backupVars, asyncVars>>

\* confirmScannedQR(): the button is drawn when scannedData is set.
confirmScannedQR ==
    /\ Truthy(modal.scannedData)
    /\ modal' = [modal EXCEPT !.saved = modal.scannedData, !.via = "scan",
                              !.scannedData = Null]
    /\ UNCHANGED <<qr, hex, parsed, valid, unhex>>
    /\ UNCHANGED <<hookVars, backupVars, asyncVars>>

----------------------------------------------------------------------------
(* hooks/use-inventory.ts: the useInventory hook.  Each action is one call *)
(* of a hook function, awaited to its end and followed by the re-render    *)
(* that hands the next call the new state; AsyncStorage.setItem succeeds.  *)

\* Bounds: the identifiers Crypto.randomUUID hands out, the count of one
\* generateBulkQRs call, and the calls of the hook (the ticks of the clock).
MaxUuid == 5
MaxBulk == 2
MaxNow == 3

defaultData == [locations |-> <<>>, areas |-> <<>>, sections |-> <<>>, items |-> <<>>]

\* Array.prototype.filter is SelectSeq; Array.prototype.map builds the
\* sequence of the images.

Ids(s) == {s[i].id : i \in 1..Len(s)}
QrDatas(s) == {s[i].qrData : i \in 1..Len(s)}

\* new Date().toISOString(): the reading of the clock.
Now == now

\* generateId()
generateId(n) == generateUUID(n)

NoOp == [op |-> "none", id |-> <<>>, qr |-> <<>>, etype |-> <<>>, count |-> 0,
         prefix |-> Undefined, mode |-> "", backup |-> 0, name |-> <<>>]

HookInit ==
    /\ data = defaultData
    /\ preGeneratedQRs = <<>>
    /\ nextUuid = 1
    /\ now = 0
    /\ last = NoOp

\* What `last` records of a call: its name, and its arguments where given.
Started(op) == [NoOp EXCEPT !.op = op]

\* saveData(newData), savePreGeneratedQRs(qrs): written and then set as state.
saveData(newData) == data' = newData
savePreGeneratedQRs(qrs) == preGeneratedQRs' = qrs

\* A call of the hook takes one tick of the clock.
Tick == now < MaxNow /\ now' = now + 1

addLocation(name) ==
    /\ Tick
    /\ nextUuid + 1 <= MaxUuid
    /\ LET id == generateId(nextUuid)
           qrData == generateQRData(STR_location, name, Undefined, generateUUID(nextUuid + 1))
           newLocation == [id |-> id, name |-> name, qrData |-> qrData,
                           type |-> STR_location, createdAt |-> Now]
       IN  saveData([data EXCEPT !.locations = Append(data.locations, newLocation)])
    /\ nextUuid' = nextUuid + 2
    /\ last' = [Started("addLocation") EXCEPT !.id = generateId(nextUuid)]
    /\ UNCHANGED <<codecVars, backupVars, asyncVars>>
    /\ UNCHANGED preGeneratedQRs

addArea(name, locationId) ==
    /\ Tick
    /\ nextUuid + 1 <= MaxUuid
    /\ LET id == generateId(nextUuid)
           qrData == generateQRData(STR_area, name, Undefined, generateUUID(nextUuid + 1))
           newArea == [id |-> id, name |-> name, qrData |-> qrData, type |-> STR_area,
                       locationId |-> locationId, createdAt |-> Now]
       IN  saveData([data EXCEPT !.areas = Append(data.areas, newArea)])
    /\ nextUuid' = nextUuid + 2
    /\ last' = [Started("addArea") EXCEPT !.id = generateId(nextUuid)]
    /\ UNCHANGED <<codecVars, backupVars, asyncVars>>
    /\ UNCHANGED preGeneratedQRs

addSection(name, locationId, areaId) ==
    /\ Tick
    /\ nextUuid + 1 <= MaxUuid
    /\ LET id == generateId(nextUuid)
           qrData == generateQRData(STR_section, name, Undefined, generateUUID(nextUuid + 1))
           newSection == [id |-> id, name |-> name, qrData |-> qrData, type |-> STR_section,
                          locationId |-> locationId, areaId |-> areaId, createdAt |-> Now]
       IN  saveData([data EXCEPT !.sections = Append(data.sections, newSection)])
    /\ nextUuid' = nextUuid + 2
    /\ last' = [Started("addSection") EXCEPT !.id = generateId(nextUuid)]
    /\ UNCHANGED <<codecVars, backupVars, asyncVars>>
    /\ UNCHANGED preGeneratedQRs

addItem(name, locationId, areaId, sectionId) ==
    /\ Tick
    /\ nextUuid + 1 <= MaxUuid
    /\ LET id == generateId(nextUuid)
           qrData == generateQRData(STR_item, name, Undefined, generateUUID(nextUuid + 1))
           newItem == [id |-> id, name |-> name, qrData |-> qrData, type |-> STR_item,
                       locationId |-> locationId, areaId |-> areaId,
                       sectionId |-> sectionId, createdAt |-> Now]
       IN  saveData([data EXCEPT !.items = Append(data.items, newItem)])
    /\ nextUuid' = nextUuid + 2
    /\ last' = [Started("addItem") EXCEPT !.id = generateId(nextUuid)]
    /\ UNCHANGED <<codecVars, backupVars, asyncVars>>
    /\ UNCHANGED preGeneratedQRs

\* coll.map(e => e.id === id ? { ...e, qrData: newQRData } : e)
SetQR(coll, id, newQRData) ==
    [i \in 1..Len(coll) |-> IF coll[i].id = id THEN [coll[i] EXCEPT !.qrData = newQRData]
                            ELSE coll[i]]

\* coll.map(e => e.id === id ? { ...e, name } : e)
SetName(coll, id, name) ==
    [i \in 1..Len(coll) |-> IF coll[i].id = id THEN [coll[i] EXCEPT !.name = name]
                            ELSE coll[i]]

updateLocation(id, name) ==
    /\ Tick
    /\ saveData([data EXCEPT !.locations = SetName(data.locations, id, name)])
    /\ last' = [Started("rename") EXCEPT !.id = id, !.name = name, !.etype = STR_location]
    /\ UNCHANGED <<codecVars, backupVars, asyncVars>>
    /\ UNCHANGED <<preGeneratedQRs, nextUuid>>

updateArea(id, name) ==
    /\ Tick
    /\ saveData([data EXCEPT !.areas = SetName(data.areas, id, name)])
    /\ last' = [Started("rename") EXCEPT !.id = id, !.name = name, !.etype = STR_area]
    /\ UNCHANGED <<codecVars, backupVars, asyncVars>>
    /\ UNCHANGED <<preGeneratedQRs, nextUuid>>

updateSection(id, name) ==
    /\ Tick
    /\ saveData([data EXCEPT !.sections = SetName(data.sections, id, name)])
    /\ last' = [Started("rename") EXCEPT !.id = id, !.name = name, !.etype = STR_section]
    /\ UNCHANGED <<codecVars, backupVars, asyncVars>>
    /\ UNCHANGED <<preGeneratedQRs, nextUuid>>

\* (updateItemNewPayload is the faulty variant that makes the payload anew
\* from the new name.)
updateItemNewPayload(id, name) ==
    /\ Tick
    /\ saveData([data EXCEPT !.items = SetQR(SetName(data.items, id, name), id,
                                             generateQRData(STR_item, name, Undefined, id))])
    /\ last' = [Started("rename") EXCEPT !.id = id, !.name = name, !.etype = STR_item]
    /\ UNCHANGED <<codecVars, backupVars, asyncVars>>
    /\ UNCHANGED <<preGeneratedQRs, nextUuid>>

updateItem(id, name) ==
    /\ Tick
    /\ saveData([data EXCEPT !.items = SetName(data.items, id, name)])
    /\ last' = [Started("rename") EXCEPT !.id = id, !.name = name, !.etype = STR_item]
    /\ UNCHANGED <<codecVars, backupVars, asyncVars>>
    /\ UNCHANGED <<preGeneratedQRs, nextUuid>>

\* The pool an updateXQR call saves: when some entry holds newQRData, every
\* entry that holds it is marked as assigned to id; else the pool as it is.
MarkAssigned(pool, id, newQRData, type) ==
    IF \E i \in 1..Len(pool) : pool[i].qrData = newQRData
    THEN [i \in 1..Len(pool) |->
            IF pool[i].qrData = newQRData
            THEN [pool[i] EXCEPT !.assignedTo = id, !.assignedType = type]
            ELSE pool[i]]
    ELSE pool

updateLocationQR(id, newQRData) ==
    /\ Tick
    /\ saveData([data EXCEPT !.locations = SetQR(data.locations, id, newQRData)])
    /\ savePreGeneratedQRs(MarkAssigned(preGeneratedQRs, id, newQRData, STR_location))
    /\ last' = [Started("updateQR") EXCEPT !.id = id, !.qr = newQRData, !.etype = STR_location]
    /\ UNCHANGED <<codecVars, backupVars, asyncVars>>
    /\ UNCHANGED nextUuid

updateAreaQR(id, newQRData) ==
    /\ Tick
    /\ saveData([data EXCEPT !.areas = SetQR(data.areas, id, newQRData)])
    /\ savePreGeneratedQRs(MarkAssigned(preGeneratedQRs, id, newQRData, STR_area))
    /\ last' = [Started("updateQR") EXCEPT !.id = id, !.qr = newQRData, !.etype = STR_area]
    /\ UNCHANGED <<codecVars, backupVars, asyncVars>>
    /\ UNCHANGED nextUuid

updateSectionQR(id, newQRData) ==
    /\ Tick
    /\ saveData([data EXCEPT !.sections = SetQR(data.sections, id, newQRData)])
    /\ savePreGeneratedQRs(MarkAssigned(preGeneratedQRs, id, newQRData, STR_section))
    /\ last' = [Started("updateQR") EXCEPT !.id = id, !.qr = newQRData, !.etype = STR_section]
    /\ UNCHANGED <<codecVars, backupVars, asyncVars>>
    /\ UNCHANGED nextUuid

updateItemQR(id, newQRData) ==
    /\ Tick
    /\ saveData([data EXCEPT !.items = SetQR(data.items, id, newQRData)])
    /\ savePreGeneratedQRs(MarkAssigned(preGeneratedQRs, id, newQRData, STR_item))
    /\ last' = [Started("updateQR") EXCEPT !.id = id, !.qr = newQRData, !.etype = STR_item]
    /\ UNCHANGED <<codecVars, backupVars, asyncVars>>
    /\ UNCHANGED nextUuid

deleteLocation(id) ==
    /\ Tick
    /\ saveData([locations |-> SelectSeq(data.locations, LAMBDA loc : loc.id # id),
                 areas |-> SelectSeq(data.areas, LAMBDA area : area.locationId # id),
                 sections |-> SelectSeq(data.sections, LAMBDA sec : sec.locationId # id),
                 items |-> SelectSeq(data.items, LAMBDA item : item.locationId # id)])
    /\ last' = [Started("deleteLocation") EXCEPT !.id = id]
    /\ UNCHANGED <<codecVars, backupVars, asyncVars>>
    /\ UNCHANGED <<preGeneratedQRs, nextUuid>>

\* (deleteAreaNoCascade is the faulty variant that leaves the area's sections
\* and items.)
deleteAreaNoCascade(id) ==
    /\ Tick
    /\ saveData([data EXCEPT !.areas = SelectSeq(data.areas, LAMBDA area : area.id # id)])
    /\ last' = [Started("deleteArea") EXCEPT !.id = id]
    /\ UNCHANGED <<codecVars, backupVars, asyncVars>>
    /\ UNCHANGED <<preGeneratedQRs, nextUuid>>

deleteArea(id) ==
    /\ Tick
    /\ saveData([data EXCEPT
                    !.areas = SelectSeq(data.areas, LAMBDA area : area.id # id),
                    !.sections = SelectSeq(data.sections, LAMBDA sec : sec.areaId # id),
                    !.items = SelectSeq(data.items, LAMBDA item : item.areaId # id)])
    /\ last' = [Started("deleteArea") EXCEPT !.id = id]
    /\ UNCHANGED <<codecVars, backupVars, asyncVars>>
    /\ UNCHANGED <<preGeneratedQRs, nextUuid>>

\* (deleteSectionCascade is the faulty variant that deletes the section's
\* items with it.)
deleteSectionCascade(id) ==
    /\ Tick
    /\ saveData([data EXCEPT
                    !.sections = SelectSeq(data.sections, LAMBDA sec : sec.id # id),
                    !.items = SelectSeq(data.items, LAMBDA item : item.sectionId # id)])
    /\ last' = [Started("deleteSection") EXCEPT !.id = id]
    /\ UNCHANGED <<codecVars, backupVars, asyncVars>>
    /\ UNCHANGED <<preGeneratedQRs, nextUuid>>

deleteSection(id) ==
    /\ Tick
    /\ saveData([data EXCEPT
                    !.sections = SelectSeq(data.sections, LAMBDA sec : sec.id # id),
                    !.items = [i \in 1..Len(data.items) |->
                                    IF data.items[i].sectionId = id
                                    THEN [data.items[i] EXCEPT !.sectionId = Null]
                                    ELSE data.items[i]]])
    /\ last' = [Started("deleteSection") EXCEPT !.id = id]
    /\ UNCHANGED <<codecVars, backupVars, asyncVars>>
    /\ UNCHANGED <<preGeneratedQRs, nextUuid>>

deleteItem(id) ==
    /\ Tick
    /\ saveData([data EXCEPT !.items = SelectSeq(data.items, LAMBDA item : item.id # id)])
    /\ last' = [Started("deleteItem") EXCEPT !.id = id]
    /\ UNCHANGED <<codecVars, backupVars, asyncVars>>
    /\ UNCHANGED <<preGeneratedQRs, nextUuid>>

\* qrCodes.map(qrData => ({ qrData, prefix: prefix || null, createdAt, assignedTo:
\* null, assignedType: null })), the identifiers being those from the first-th on.
NewPreQRs(count, prefix, first) ==
    LET qrCodes == generateBulkQRCodes(count, prefix, first) IN
    [i \in 1..count |->
        [qrData |-> qrCodes[i],
         prefix |-> IF Truthy(prefix) THEN prefix ELSE Null,
         createdAt |-> Now, assignedTo |-> Null, assignedType |-> Null]]

generateBulkQRs(count, prefix) ==
    /\ Tick
    /\ nextUuid + count - 1 <= MaxUuid
    /\ savePreGeneratedQRs(preGeneratedQRs \o NewPreQRs(count, prefix, nextUuid))
    /\ nextUuid' = nextUuid + count
    /\ last' = [Started("generateBulkQRs") EXCEPT !.count = count, !.prefix = prefix]
    /\ UNCHANGED <<codecVars, backupVars, asyncVars>>
    /\ UNCHANGED data

deletePreGeneratedQR(qrData) ==
    /\ Tick
    /\ savePreGeneratedQRs(SelectSeq(preGeneratedQRs, LAMBDA q : q.qrData # qrData))
    /\ last' = [Started("deletePreGeneratedQR") EXCEPT !.qr = qrData]
    /\ UNCHANGED <<codecVars, backupVars, asyncVars>>
    /\ UNCHANGED <<data, nextUuid>>

\* (clearAssignedPreQRs is the faulty variant with the test inverted.)
clearAssignedPreQRs ==
    /\ Tick
    /\ savePreGeneratedQRs(SelectSeq(preGeneratedQRs, LAMBDA q : q.assignedTo = Null))
    /\ last' = Started("clearUnassignedPreQRs")
    /\ UNCHANGED <<codecVars, backupVars, asyncVars>>
    /\ UNCHANGED <<data, nextUuid>>

clearUnassignedPreQRs ==
    /\ Tick
    /\ savePreGeneratedQRs(SelectSeq(preGeneratedQRs, LAMBDA q : q.assignedTo # Null))
    /\ last' = Started("clearUnassignedPreQRs")
    /\ UNCHANGED <<codecVars, backupVars, asyncVars>>
    /\ UNCHANGED <<data, nextUuid>>

\* The forEach loops of the merge: each entry of `from` whose id is not yet in
\* the merged list is pushed onto it.
\* (MergeByIdOverwrite is the faulty variant that lets the backup's entry
\* replace the live entry with its id.)
RECURSIVE MergeByIdOverwrite(_, _)
MergeByIdOverwrite(merged, from) ==
    IF Len(from) = 0 THEN merged
    ELSE IF \E i \in 1..Len(merged) : merged[i].id = from[1].id
         THEN MergeByIdOverwrite([i \in 1..Len(merged) |->
                                     IF merged[i].id = from[1].id THEN from[1] ELSE merged[i]],
                                 Tail(from))
    ELSE MergeByIdOverwrite(Append(merged, from[1]), Tail(from))
RECURSIVE MergeById(_, _)
MergeById(merged, from) ==
    IF Len(from) = 0 THEN merged
    ELSE IF \E i \in 1..Len(merged) : merged[i].id = from[1].id
         THEN MergeById(merged, Tail(from))
    ELSE MergeById(Append(merged, from[1]), Tail(from))

\* The same for the pool, the key being qrData.
\* (MergeByQrDataNoLook is the faulty variant that looks at the live pool only,
\* not at the entries it has pushed.)
MergeByQrDataNoLook(merged, from) ==
    merged \o SelectSeq(from, LAMBDA q : q.qrData \notin QrDatas(merged))
RECURSIVE MergeByQrData(_, _)
MergeByQrData(merged, from) ==
    IF Len(from) = 0 THEN merged
    ELSE IF \E i \in 1..Len(merged) : merged[i].qrData = from[1].qrData
         THEN MergeByQrData(merged, Tail(from))
    ELSE MergeByQrData(Append(merged, from[1]), Tail(from))

\* backupData.preGeneratedQRs || []
\* (BackupPoolNone is the faulty variant that drops the backup's pool.)
BackupPoolNone(backupData) == <<>>
BackupPool(backupData) == IF backupData.hasPool THEN backupData.preGeneratedQRs ELSE <<>>

restoreFromBackup(backupData, mode) ==
    /\ Tick
    /\ IF mode = "replace"
       THEN /\ saveData(backupData.inventory)
            /\ savePreGeneratedQRs(BackupPool(backupData))
       ELSE /\ saveData([locations |-> MergeById(data.locations, backupData.inventory.locations),
                         areas |-> MergeById(data.areas, backupData.inventory.areas),
                         sections |-> MergeById(data.sections, backupData.inventory.sections),
                         items |-> MergeById(data.items, backupData.inventory.items)])
            /\ savePreGeneratedQRs(MergeByQrData(preGeneratedQRs, BackupPool(backupData)))
    /\ last' = [Started("restoreFromBackup") EXCEPT !.mode = mode, !.backup = backupData.no]
    /\ UNCHANGED <<codecVars, backupVars, asyncVars>>
    /\ UNCHANGED nextUuid

clearAllData ==
    /\ Tick
    /\ saveData(defaultData)
    /\ savePreGeneratedQRs(<<>>)
    /\ last' = Started("clearAllData")
    /\ UNCHANGED <<codecVars, backupVars, asyncVars>>
    /\ UNCHANGED nextUuid

----------------------------------------------------------------------------
(* The inputs of the hook's calls. *)

\* The name given to new entities: "A:", and the name a rename gives: "B".
HookNames == {<<65, Colon>>}
HookNewNames == {<<66>>}

\* Prefixes typed on the generate screen: none, "A" and "A:B".
HookPrefixes == {Undefined, <<65>>, <<65, Colon, 66>>}

\* An id that names no entity, and a payload that is in no pool.
STR_item_1 == <<105, 116, 101, 109, 45, 49>>
ForeignQR == generateQRData(STR_item, <<90>>, Undefined, generateUUID(15))

\* Backup files a user may pick (they pass validateBackupData, which looks at
\* no entry of an array).  Their identifiers: generateUUID(1) is also the
\* first identifier the device hands out, the others are foreign.
BackupLocation == [id |-> generateUUID(1), name |-> <<90>>,
                   qrData |-> generateQRData(STR_location, <<90>>, Undefined, generateUUID(11)),
                   type |-> STR_location, createdAt |-> 0]
BackupArea == [id |-> generateUUID(12), name |-> <<90>>,
               qrData |-> generateQRData(STR_area, <<90>>, Undefined, generateUUID(13)),
               type |-> STR_area, locationId |-> generateUUID(1), createdAt |-> 0]
BackupSection == [id |-> generateUUID(8), name |-> <<90>>,
                  qrData |-> generateQRData(STR_section, <<90>>, Undefined, generateUUID(7)),
                  type |-> STR_section, locationId |-> generateUUID(1),
                  areaId |-> generateUUID(12), createdAt |-> 0]
BackupItem == [id |-> generateUUID(10), name |-> <<90>>,
               qrData |-> generateQRData(STR_item, <<90>>, Undefined, generateUUID(9)),
               type |-> STR_item, locationId |-> generateUUID(1),
               areaId |-> generateUUID(12), sectionId |-> generateUUID(8), createdAt |-> 0]
BackupPreQR == [qrData |-> generatePreQRCode(Undefined, generateUUID(14)), prefix |-> Null,
                createdAt |-> 0, assignedTo |-> Null, assignedType |-> Null]
\* A second unassigned pool entry.
OtherPreQR == [BackupPreQR EXCEPT !.qrData = generatePreQRCode(Undefined, generateUUID(6))]
\* An entry with assignedTo set and assignedType null.
BackupHalfAssigned == [BackupPreQR EXCEPT !.assignedTo = generateUUID(1)]

Backups == <<
    \* a location, an area, a section and an item in it, and one unassigned
    \* pool entry
    [no |-> 1, version |-> STR_2_0, hasPool |-> TRUE,
     inventory |-> [locations |-> <<BackupLocation>>, areas |-> <<BackupArea>>,
                    sections |-> <<BackupSection>>, items |-> <<BackupItem>>],
     preGeneratedQRs |-> <<BackupPreQR>>],
    \* the same location twice; the same pool entry twice, then once more
    \* half assigned
    [no |-> 2, version |-> STR_2_0, hasPool |-> TRUE,
     inventory |-> [defaultData EXCEPT !.locations = <<BackupLocation, BackupLocation>>],
     preGeneratedQRs |-> <<BackupPreQR, BackupPreQR, BackupHalfAssigned>>],
    \* an export older than the pool: no preGeneratedQRs field
    [no |-> 3, version |-> STR_1_0, hasPool |-> FALSE,
     inventory |-> [defaultData EXCEPT !.locations = <<BackupLocation>>],
     preGeneratedQRs |-> <<>>] >>

AllEntities(d) ==
    {d.locations[i] : i \in 1..Len(d.locations)} \cup {d.areas[i] : i \in 1..Len(d.areas)}
    \cup {d.sections[i] : i \in 1..Len(d.sections)} \cup {d.items[i] : i \in 1..Len(d.items)}

\* The ids and payloads an updateXQR call may be given: the id of an entity of
\* the collection (for an item also one that names none); a payload of the
\* pool or a foreign one.
UpdateIds(coll) == Ids(coll) \cup (IF coll = data.items THEN {STR_item_1} ELSE {})
UpdateQRs == QrDatas(preGeneratedQRs) \cup {ForeignQR}

HookNext ==
    \/ \E name \in HookNames : addLocation(name)
    \/ \E name \in HookNames, i \in 1..Len(data.locations) :
          addArea(name, data.locations[i].id)
    \/ \E name \in HookNames, i \in 1..Len(data.areas) :
          addSection(name, data.areas[i].locationId, data.areas[i].id)
    \/ \E name \in HookNames, i \in 1..Len(data.areas) :
          \E sectionId \in {Null} \cup {s.id : s \in {x \in AllEntities(data) :
                                  x.type = STR_section /\ x.areaId = data.areas[i].id}} :
              addItem(name, data.areas[i].locationId, data.areas[i].id, sectionId)
    \/ \E id \in Ids(data.locations), name \in HookNewNames : updateLocation(id, name)
    \/ \E id \in Ids(data.areas), name \in HookNewNames : updateArea(id, name)
    \/ \E id \in Ids(data.sections), name \in HookNewNames : updateSection(id, name)
    \/ \E id \in Ids(data.items), name \in HookNewNames : updateItem(id, name)
    \/ \E id \in UpdateIds(data.locations), q \in UpdateQRs : updateLocationQR(id, q)
    \/ \E id \in UpdateIds(data.areas), q \in UpdateQRs : updateAreaQR(id, q)
    \/ \E id \in UpdateIds(data.sections), q \in UpdateQRs : updateSectionQR(id, q)
    \/ \E id \in UpdateIds(data.items), q \in UpdateQRs : updateItemQR(id, q)
    \/ \E id \in Ids(data.locations) : deleteLocation(id)
    \/ \E id \in Ids(data.areas) : deleteArea(id)
    \/ \E id \in Ids(data.sections) : deleteSection(id)
    \/ \E id \in Ids(data.items) : deleteItem(id)
    \/ \E count \in 1..MaxBulk, prefix \in HookPrefixes : generateBulkQRs(count, prefix)
    \/ \E q \in QrDatas(preGeneratedQRs) : deletePreGeneratedQR(q)
    \/ clearUnassignedPreQRs
    \/ \E b \in 1..Len(Backups), mode \in {"merge", "replace"} :
          restoreFromBackup(Backups[b], mode)
    \/ clearAllData

----------------------------------------------------------------------------
(* lib/backup-utils: validateBackupData, migrateBackupData,                *)
(* checkBackupCompatibility and importBackup, and the import of the        *)
(* settings screen.  A parsed JSON value is a record with its type t: an   *)
(* object holds a record o of its members, an array a sequence a, a string *)
(* its code units s, a number its value n.  The entries of the arrays are  *)
(* the records of the hook.                                                *)

JUndefined == [t |-> "undefined"]
JNull == [t |-> "null"]
JNumber(n) == [t |-> "number", n |-> n]
JString(s) == [t |-> "string", s |-> s]
JArray(a) == [t |-> "array", a |-> a]
JObject(o) == [t |-> "object", o |-> o]

\* x[k]: undefined when x is no object or has no member k.
Get(x, k) == IF x.t = "object" /\ k \in DOMAIN x.o THEN x.o[k] ELSE JUndefined

\* !x
Falsy(x) ==
    \/ x.t \in {"undefined", "null"}
    \/ x.t = "number" /\ x.n = 0
    \/ x.t = "string" /\ x.s = <<>>

\* typeof x, Array.isArray(x)
TypeOf(x) == IF x.t \in {"object", "array", "null"} THEN "object" ELSE x.t
IsArray(x) == x.t = "array"

\* (validateBackupDataNoItems is the faulty variant that forgets the items.)
validateBackupDataNoItems(d) ==
    IF Falsy(d) \/ TypeOf(d) # "object" THEN FALSE
    ELSE IF TypeOf(Get(d, "version")) # "string" THEN FALSE
    ELSE IF TypeOf(Get(d, "exportedAt")) # "string" THEN FALSE
    ELSE IF Falsy(Get(d, "inventory")) \/ TypeOf(Get(d, "inventory")) # "object" THEN FALSE
    ELSE LET inventory == Get(d, "inventory") IN
         IF ~IsArray(Get(inventory, "locations")) THEN FALSE
         ELSE IF ~IsArray(Get(inventory, "areas")) THEN FALSE
         ELSE IF ~IsArray(Get(inventory, "sections")) THEN FALSE
         ELSE IF Get(d, "preGeneratedQRs") # JUndefined /\ ~IsArray(Get(d, "preGeneratedQRs"))
              THEN FALSE
         ELSE TRUE
validateBackupData(d) ==
    IF Falsy(d) \/ TypeOf(d) # "object" THEN FALSE
    ELSE IF TypeOf(Get(d, "version")) # "string" THEN FALSE
    ELSE IF TypeOf(Get(d, "exportedAt")) # "string" THEN FALSE
    ELSE IF Falsy(Get(d, "inventory")) \/ TypeOf(Get(d, "inventory")) # "object" THEN FALSE
    ELSE LET inventory == Get(d, "inventory") IN
         IF ~IsArray(Get(inventory, "locations")) THEN FALSE
         ELSE IF ~IsArray(Get(inventory, "areas")) THEN FALSE
         ELSE IF ~IsArray(Get(inventory, "sections")) THEN FALSE
         ELSE IF ~IsArray(Get(inventory, "items")) THEN FALSE
         ELSE IF Get(d, "preGeneratedQRs") # JUndefined /\ ~IsArray(Get(d, "preGeneratedQRs"))
              THEN FALSE
         ELSE TRUE

\* A file that passed validateBackupData, seen as BackupData (data is
\* BackupData): hasPool tells whether it has the member preGeneratedQRs,
\* hasMetadata whether it has metadata.
AsBackupData(d) ==
    [no |-> 0,
     version |-> Get(d, "version").s,
     exportedAt |-> Get(d, "exportedAt").s,
     inventory |-> [locations |-> Get(Get(d, "inventory"), "locations").a,
                    areas |-> Get(Get(d, "inventory"), "areas").a,
                    sections |-> Get(Get(d, "inventory"), "sections").a,
                    items |-> Get(Get(d, "inventory"), "items").a],
     hasPool |-> IsArray(Get(d, "preGeneratedQRs")),
     preGeneratedQRs |-> IF IsArray(Get(d, "preGeneratedQRs"))
                         THEN Get(d, "preGeneratedQRs").a ELSE <<>>,
     hasMetadata |-> Get(d, "metadata").t = "object",
     metadata |-> IF Get(d, "metadata").t = "object"
                  THEN [appVersion |-> Get(Get(d, "metadata"), "appVersion").s,
                        totalPhotos |-> Get(Get(d, "metadata"), "totalPhotos").n]
                  ELSE [appVersion |-> Undefined, totalPhotos |-> 0]]

\* A number is the pair of a mark and its value, which no string is.
Num(n) == <<-10, n>>

\* v ?? d
\* (DefaultAlways is the faulty variant that takes the default always.)
DefaultAlways(v, d) == d
Default(v, d) == IF v \in {Undefined, Null} THEN d ELSE v

\* { ...item, quantity: item.quantity ?? 1, condition: item.condition ?? 'good' }
\* (a member the item does not have is undefined)
MigratedItem(item) ==
    [k \in DOMAIN item \cup {"quantity", "condition"} |->
        IF k = "quantity" THEN Default(IF "quantity" \in DOMAIN item THEN item.quantity ELSE Undefined, Num(1))
        ELSE IF k = "condition" THEN Default(IF "condition" \in DOMAIN item THEN item.condition ELSE Undefined,
                     STR_good)
        ELSE item[k]]

\* reduce((count, item) => count + (item.photos?.length || 0), 0)
RECURSIVE TotalPhotos(_)
TotalPhotos(items) ==
    IF Len(items) = 0 THEN 0
    ELSE (IF "photos" \in DOMAIN items[1] THEN Len(items[1].photos) ELSE 0)
         + TotalPhotos(Tail(items))

\* data.version === '1.0'
\* (NeedsMigrationAlways is the faulty variant that migrates every version.)
NeedsMigrationAlways(d) == TRUE
NeedsMigration(d) == d.version = STR_1_0

migrateBackupData(d) ==
    IF NeedsMigration(d)
    THEN LET migratedItems == [i \in 1..Len(d.inventory.items) |->
                                  MigratedItem(d.inventory.items[i])]
             migratedLocations == [i \in 1..Len(d.inventory.locations) |->
                                      d.inventory.locations[i]]
             migratedQRs == [i \in 1..Len(BackupPool(d)) |-> BackupPool(d)[i]]
         IN  [d EXCEPT !.version = BACKUP_VERSION,
                       !.inventory = [d.inventory EXCEPT !.items = migratedItems,
                                                         !.locations = migratedLocations],
                       !.hasPool = TRUE,
                       !.preGeneratedQRs = migratedQRs,
                       !.hasMetadata = TRUE,
                       !.metadata = [appVersion |-> APP_VERSION,
                                     totalPhotos |-> TotalPhotos(migratedItems)]]
    ELSE d

\* Number(s) for the text of a version's part: the value of a run of decimal
\* digits, 0 for the empty text, NaN for any other text.
RECURSIVE DigitsValue(_)
DigitsValue(s) ==
    IF Len(s) = 0 THEN 0 ELSE 10 * DigitsValue(SubSeq(s, 1, Len(s) - 1)) + (s[Len(s)] - 48)
Number(s) == IF \A i \in 1..Len(s) : IsDigit(s[i]) THEN DigitsValue(s) ELSE NaN

\* const [major] = version.split('.').map(Number)
Dot == 46
PhotoLimit == 100
MajorOf(version) == Number(Split(version, Dot)[1])

\* (a comparison of JavaScript numbers is false when either is NaN)
checkBackupCompatibility(d) ==
    LET majorVersion == MajorOf(d.version)
        currentMajor == MajorOf(BACKUP_VERSION)
        totalPhotos == TotalPhotos(d.inventory.items)
    IN  IF majorVersion # NaN /\ currentMajor # NaN /\ majorVersion > currentMajor
        THEN [compatible |-> FALSE, warnings |-> <<"newer">>]
        ELSE [compatible |-> TRUE,
              warnings |-> (IF majorVersion # NaN /\ currentMajor # NaN /\ majorVersion < currentMajor
                            THEN <<"older">> ELSE <<>>)
                           \o (IF totalPhotos > PhotoLimit THEN <<"photos">> ELSE <<>>)]

\* The files a user may pick.  A well-formed one has a version, an export
\* time, an inventory and, unless it is an old export, a pool.
ItemNoSection == [id |-> generateUUID(9), name |-> <<90>>,
                  qrData |-> generateQRData(STR_item, <<90>>, Undefined, generateUUID(8)),
                  type |-> STR_item, locationId |-> generateUUID(1),
                  areaId |-> generateUUID(12), sectionId |-> Null, createdAt |-> 0]
\* An item that has a quantity and a condition ('fair'), and one with photos.
ItemWithQuantity == [k \in DOMAIN ItemNoSection \cup {"quantity", "condition"} |->
                        IF k = "quantity" THEN Num(3)
                        ELSE IF k = "condition" THEN <<102, 97, 105, 114>>
                        ELSE ItemNoSection[k]]
ItemWithPhotos == [k \in DOMAIN BackupItem \cup {"photos"} |->
                      IF k = "photos" THEN [i \in 1..(PhotoLimit + 1) |-> <<112>>]
                      ELSE BackupItem[k]]


\* An object with the members that are given (undefined: the member is absent).
ObjectOf(members) ==
    JObject([k \in {m \in DOMAIN members : members[m] # JUndefined} |-> members[k]])

InventoryJson(inv) ==
    ObjectOf([locations |-> JArray(inv.locations), areas |-> JArray(inv.areas),
              sections |-> JArray(inv.sections), items |-> JArray(inv.items)])
STR_exportedAt == <<50, 48, 50, 54>>
FileOf(version, exportedAt, inventory, pool) ==
    ObjectOf([version |-> version, exportedAt |-> exportedAt,
              inventory |-> inventory, preGeneratedQRs |-> pool])

\* (the versions are '1.0', '2.0', '2.1' and '3.0')
GoodFiles ==
    {FileOf(JString(v), JString(STR_exportedAt), InventoryJson(inv), pool) :
        v \in {STR_1_0, STR_2_0, <<50, 46, 49>>, <<51, 46, 48>>},
        inv \in {defaultData,
                 Backups[1].inventory,
                 [Backups[1].inventory EXCEPT !.items = <<ItemWithQuantity, ItemWithPhotos>>]},
        pool \in {JUndefined, JArray(<<BackupPreQR>>)}}

\* Values a member may have in place of the expected one, and the files
\* in which one member is varied (or the whole file is no object).
WrongValues == {JUndefined, JNull, JNumber(2), JString(<<120>>), JArray(<<>>),
                JObject([x |-> JNull])}
VariedInventories ==
    {ObjectOf([locations |-> l, areas |-> a, sections |-> s, items |-> i]) :
        l \in {JArray(<<>>)} \cup WrongValues,
        a \in {JArray(<<>>), JUndefined}, s \in {JArray(<<>>), JObject([x |-> JNull])},
        i \in {JArray(<<>>), JUndefined, JNull}}
VariedFiles ==
    {JNull, JNumber(0), JNumber(2), JString(<<>>), JString(<<120>>), JArray(<<>>)}
    \cup {FileOf(v, JString(STR_exportedAt), InventoryJson(defaultData), JArray(<<>>)) :
            v \in WrongValues}
    \cup {FileOf(JString(STR_2_0), e, InventoryJson(defaultData), JArray(<<>>)) :
            e \in WrongValues}
    \cup {FileOf(JString(STR_2_0), JString(STR_exportedAt), inv, JArray(<<>>)) :
            inv \in WrongValues \cup VariedInventories}
    \cup {FileOf(JString(STR_2_0), JString(STR_exportedAt), InventoryJson(defaultData), q) :
            q \in WrongValues}
Files == GoodFiles \cup VariedFiles

NoFile == JUndefined
NoBackup == [AsBackupData(FileOf(JString(<<>>), JString(<<>>), InventoryJson(defaultData),
                                 JUndefined)) EXCEPT !.no = -1]
NoCompat == [compatible |-> TRUE, warnings |-> <<"notrun">>]
NotImported == [status |-> "none", data |-> NoBackup]

\* The bench before a file is picked, as the other specifications leave it.
BackupIdle ==
    /\ file = NoFile
    /\ validated = "notrun"
    /\ migrated = NoBackup
    /\ migrated2 = NoBackup
    /\ compat = NoCompat
    /\ imported = NotImported

BackupInit ==
    /\ file \in Files
    /\ validated = "notrun"
    /\ migrated = NoBackup
    /\ migrated2 = NoBackup
    /\ compat = NoCompat
    /\ imported = NotImported

\* The bench applies the functions to the file in one order.
DoValidateBackupData ==
    /\ file # NoFile
    /\ validated = "notrun"
    /\ validated' = (IF validateBackupData(file) THEN "true" ELSE "false")
    /\ UNCHANGED <<file, migrated, migrated2, compat, imported>>
    /\ UNCHANGED <<codecVars, hookVars, asyncVars>>

DoMigrateBackupData ==
    /\ validated = "true"
    /\ migrated = NoBackup
    /\ migrated' = migrateBackupData(AsBackupData(file))
    /\ UNCHANGED <<file, validated, migrated2, compat, imported>>
    /\ UNCHANGED <<codecVars, hookVars, asyncVars>>

DoMigrateBackupDataAgain ==
    /\ migrated # NoBackup
    /\ migrated2 = NoBackup
    /\ migrated2' = migrateBackupData(migrated)
    /\ UNCHANGED <<file, validated, migrated, compat, imported>>
    /\ UNCHANGED <<codecVars, hookVars, asyncVars>>

DoCheckBackupCompatibility ==
    /\ migrated2 # NoBackup
    /\ compat = NoCompat
    /\ compat' = checkBackupCompatibility(AsBackupData(file))
    /\ UNCHANGED <<file, validated, migrated, migrated2, imported>>
    /\ UNCHANGED <<codecVars, hookVars, asyncVars>>

\* createBackupData(inventory, preGeneratedQRs); exportedAt is the reading of
\* the clock as text.
\* (createBackupDataNoPool is the faulty variant that leaves the pool out.)
createBackupDataNoPool(inventory, pool) ==
    [no |-> 0, version |-> BACKUP_VERSION, exportedAt |-> <<48 + Now>>,
     inventory |-> inventory, hasPool |-> TRUE, preGeneratedQRs |-> <<>>,
     hasMetadata |-> TRUE,
     metadata |-> [appVersion |-> APP_VERSION, totalPhotos |-> TotalPhotos(inventory.items)]]
createBackupData(inventory, pool) ==
    [no |-> 0, version |-> BACKUP_VERSION, exportedAt |-> <<48 + Now>>,
     inventory |-> inventory, hasPool |-> TRUE, preGeneratedQRs |-> pool,
     hasMetadata |-> TRUE,
     metadata |-> [appVersion |-> APP_VERSION, totalPhotos |-> TotalPhotos(inventory.items)]]

\* JSON.parse(JSON.stringify(backupData)): the members as parsed values; the
\* entries of the arrays hold strings, numbers and null only and come back
\* as they went.
Stringified(backupData) ==
    ObjectOf([version |-> JString(backupData.version),
              exportedAt |-> JString(backupData.exportedAt),
              inventory |-> InventoryJson(backupData.inventory),
              preGeneratedQRs |-> JArray(backupData.preGeneratedQRs),
              metadata |-> JObject([appVersion |-> JString(backupData.metadata.appVersion),
                                    totalPhotos |-> JNumber(backupData.metadata.totalPhotos)])])

\* exportBackup(data, preGeneratedQRs) of the settings screen: the file the
\* user may pick afterwards.
exportBackup ==
    /\ file = NoFile
    /\ file' = Stringified(createBackupData(data, preGeneratedQRs))
    /\ UNCHANGED <<validated, migrated, migrated2, compat, imported>>
    /\ UNCHANGED <<codecVars, hookVars, asyncVars>>

\* The live states an export starts from: what loadData() read, an inventory
\* with or without entities and a pool with an assigned and an unassigned
\* entry, or none.
LiveInit ==
    /\ data \in {defaultData, Backups[1].inventory}
    /\ preGeneratedQRs \in {<<>>, <<BackupPreQR>>,
                             <<[BackupPreQR EXCEPT !.assignedTo = BackupItem.id,
                                                   !.assignedType = STR_item],
                               OtherPreQR>>}
    /\ nextUuid = 1
    /\ now = 0
    /\ last = NoOp

\* importBackup(): the file is parsed; when validateBackupData refuses it the
\* function throws, else it resolves with migrateBackupData(data).
importBackup ==
    /\ validated # "notrun"
    /\ validated = "true" => compat # NoCompat
    /\ imported = NotImported
    /\ imported' = IF validateBackupData(file)
                   THEN [status |-> "ok", data |-> migrateBackupData(AsBackupData(file))]
                   ELSE [status |-> "threw", data |-> NoBackup]
    /\ UNCHANGED <<file, validated, migrated, migrated2, compat>>
    /\ UNCHANGED <<codecVars, hookVars, asyncVars>>

\* handleImport and performImport of the settings screen: the user picks
\* Merge or Replace, and restoreFromBackup is called with what importBackup
\* resolved with.
performImport(mode) ==
    /\ imported.status = "ok"
    /\ restoreFromBackup(imported.data, mode)

----------------------------------------------------------------------------
(* The hook's calls step by step.  A hook function is a useCallback closure *)
(* over the data and preGeneratedQRs of the render that made it: a call     *)
(* computes what it writes from these, whatever was written since.  saveData *)
(* and savePreGeneratedQRs await AsyncStorage.setItem and then set the      *)
(* state; when setItem rejects they log the error and return, and the       *)
(* caller goes on.  One step is the part of a call between two awaits; the  *)
(* write and the setState that follows it are taken as one step.           *)

\* Bound: the calls of hook functions of one run.
MaxCalls == 2

\* The hook at rest, as the other specifications leave it.
AsyncIdle ==
    /\ storage = [inventory |-> defaultData, pool |-> <<>>]
    /\ closure = [data |-> defaultData, pool |-> <<>>]
    /\ calls = <<>>

\* loadData() has read what an earlier session stored: a location, an area,
\* a section and an item, and two unassigned pool entries.
AsyncInit ==
    /\ storage = [inventory |-> Backups[1].inventory, pool |-> <<BackupPreQR, OtherPreQR>>]
    /\ data = storage.inventory
    /\ preGeneratedQRs = storage.pool
    /\ closure = [data |-> data, pool |-> preGeneratedQRs]
    /\ calls = <<>>
    /\ nextUuid = 1
    /\ now = 0
    /\ last = NoOp

\* The re-render after a setState: the callbacks are made anew over the
\* state as it is.
Render ==
    /\ closure # [data |-> data, pool |-> preGeneratedQRs]
    /\ closure' = [data |-> data, pool |-> preGeneratedQRs]
    /\ UNCHANGED <<storage, calls>>
    /\ UNCHANGED <<codecVars, hookVars, backupVars>>

\* A call as it starts: what it is to write (newData, computed from the data
\* of its closure), the pool of its closure, whether every earlier call had
\* returned (awaited), and whether a write of it has failed.
NewCall(op, id, qrData, etype, newData) ==
    [op |-> op, id |-> id, qr |-> qrData, etype |-> etype, newData |-> newData,
     seen |-> closure, awaited |-> \A i \in 1..Len(calls) : calls[i].pc = "done",
     failed |-> FALSE, pc |-> "saveData"]

\* addItem(name, locationId, areaId, sectionId) up to its await.
CallAddItem(name, locationId, areaId, sectionId) ==
    /\ Len(calls) < MaxCalls
    /\ nextUuid + 1 <= MaxUuid
    /\ LET id == generateId(nextUuid)
           qrData == generateQRData(STR_item, name, Undefined, generateUUID(nextUuid + 1))
           newItem == [id |-> id, name |-> name, qrData |-> qrData, type |-> STR_item,
                       locationId |-> locationId, areaId |-> areaId,
                       sectionId |-> sectionId, createdAt |-> Now]
           newData == [closure.data EXCEPT !.items = Append(closure.data.items, newItem)]
       IN  calls' = Append(calls, NewCall("addItem", id, qrData, STR_item, newData))
    /\ nextUuid' = nextUuid + 2
    /\ UNCHANGED <<storage, closure, data, preGeneratedQRs, now, last>>
    /\ UNCHANGED <<codecVars, backupVars>>

\* updateLocationQR(id, newQRData) and updateItemQR(id, newQRData) up to
\* their first await.
CallUpdateLocationQR(id, newQRData) ==
    /\ Len(calls) < MaxCalls
    /\ LET newData == [closure.data EXCEPT
                          !.locations = SetQR(closure.data.locations, id, newQRData)]
       IN  calls' = Append(calls, NewCall("updateQR", id, newQRData, STR_location, newData))
    /\ UNCHANGED <<storage, closure>>
    /\ UNCHANGED <<codecVars, hookVars, backupVars>>

CallUpdateItemQR(id, newQRData) ==
    /\ Len(calls) < MaxCalls
    /\ LET newData == [closure.data EXCEPT
                          !.items = SetQR(closure.data.items, id, newQRData)]
       IN  calls' = Append(calls, NewCall("updateQR", id, newQRData, STR_item, newData))
    /\ UNCHANGED <<storage, closure>>
    /\ UNCHANGED <<codecVars, hookVars, backupVars>>

\* await saveData(newData) of call c: AsyncStorage.setItem resolves (ok) and
\* the state is set, or it rejects and the error is logged.
AwaitSaveData(c, ok) ==
    /\ calls[c].pc = "saveData"
    /\ IF ok
       THEN /\ storage' = [storage EXCEPT !.inventory = calls[c].newData]
            /\ data' = calls[c].newData
       ELSE UNCHANGED <<storage, data>>
    /\ calls' = [calls EXCEPT ![c].pc = IF calls[c].op = "updateQR" THEN "pool" ELSE "done",
                              ![c].failed = ~ok]
    /\ UNCHANGED <<closure, preGeneratedQRs, nextUuid, now, last>>
    /\ UNCHANGED <<codecVars, backupVars>>

\* The rest of updateXQR of call c: when the pool of its closure holds the
\* payload, await savePreGeneratedQRs(updatedPreQRs).
AwaitSavePreGeneratedQRs(c, ok) ==
    /\ calls[c].pc = "pool"
    /\ LET updatedPreQRs == MarkAssigned(calls[c].seen.pool, calls[c].id, calls[c].qr,
                                         calls[c].etype)
           found == calls[c].qr \in QrDatas(calls[c].seen.pool)
       IN  /\ IF found /\ ok
              THEN /\ storage' = [storage EXCEPT !.pool = updatedPreQRs]
                   /\ preGeneratedQRs' = updatedPreQRs
              ELSE UNCHANGED <<storage, preGeneratedQRs>>
           /\ calls' = [calls EXCEPT ![c].pc = "done",
                                     ![c].failed = calls[c].failed \/ (found /\ ~ok)]
    /\ UNCHANGED <<closure, data, nextUuid, now, last>>
    /\ UNCHANGED <<codecVars, backupVars>>

----------------------------------------------------------------------------
(* The specifications. *)

\* The hook, called from the screens.
Init == CodecIdle /\ BackupIdle /\ AsyncIdle /\ HookInit
Next == HookNext
Spec == Init /\ [][Next]_vars

\* The codec bench.
InitCodec == CodecInit /\ BackupIdle /\ AsyncIdle /\ HookInit
NextCodec ==
    \/ DoGenerateQRData
    \/ DoGeneratePreQRCode
    \/ DoParseQRData
    \/ DoIsValidQRData
    \/ DoQrDataToHex
    \/ DoHexToQRData
    \/ DoFormatHexForDisplay
    \/ handleHexSubmit
    \/ handleScanResult
    \/ confirmScannedQR
SpecCodec == InitCodec /\ [][NextCodec]_vars

\* The backup bench and the import of a file.
InitBackup ==
    /\ CodecIdle
    /\ AsyncIdle
    /\ \/ BackupInit /\ HookInit
       \/ BackupIdle /\ LiveInit
NextBackup ==
    \/ DoValidateBackupData
    \/ DoMigrateBackupData
    \/ DoMigrateBackupDataAgain
    \/ DoCheckBackupCompatibility
    \/ exportBackup
    \/ importBackup
    \/ \E mode \in {"merge", "replace"} : performImport(mode)
SpecBackup == InitBackup /\ [][NextBackup]_vars

\* The hook's calls step by step, a write of AsyncStorage failing or not.
InitAsync == CodecIdle /\ BackupIdle /\ AsyncInit
NextAsync ==
    \/ Render
    \/ \E name \in HookNames, i \in 1..Len(closure.data.areas) :
          CallAddItem(name, closure.data.areas[i].locationId, closure.data.areas[i].id, Null)
    \/ \E id \in Ids(closure.data.locations), q \in QrDatas(closure.pool) :
          CallUpdateLocationQR(id, q)
    \/ \E id \in Ids(closure.data.items), q \in QrDatas(closure.pool) :
          CallUpdateItemQR(id, q)
    \/ \E c \in 1..Len(calls), ok \in BOOLEAN : AwaitSaveData(c, ok)
    \/ \E c \in 1..Len(calls), ok \in BOOLEAN : AwaitSavePreGeneratedQRs(c, ok)
SpecAsync == InitAsync /\ [][NextAsync]_vars

----------------------------------------------------------------------------
(* The claims about the codec and the hex transcoder (SpecCodec). *)

\* The type code of a payload: its first segment, after the last '-' if any.
TypeCodeOf(payload) ==
    LET first == Split(payload, Colon)[1]
        pieces == Split(first, Dash)
    IN  pieces[Len(pieces)]

\* C1: for every entity type, name and generated id, parseQRData applied to
\* the payload generateQRData(type, name) built returns that type, that id and
\* that name.
C1_CodecRoundTrip ==
    (qr.src = "generateQRData" /\ ~Truthy(qr.prefix) /\ parsed # ParseNotRun) =>
        /\ parsed.status = "ok"
        /\ parsed.type = qr.type
        /\ parsed.id = qr.id
        /\ parsed.name = qr.name

\* A name made of ':' and '%' went through generateQRData and parseQRData.
C1_Witness ==
    /\ qr.src = "generateQRData"
    /\ ~Truthy(qr.prefix)
    /\ qr.name = <<Colon, Percent>>
    /\ parsed.status = "ok"
    /\ parsed.name = qr.name

\* C2: isValidQRData(payload) is true if and only if parseQRData returns a
\* result with a recognised type code and the id segment has the UUID shape.
C2_ValidIffDecodes ==
    (valid # "notrun") =>
        ((valid = "true") <=>
            /\ parsed.status = "ok"
            /\ TypeCodeOf(qr.payload) \in TypeCodes
            /\ UuidRegexTest(parsed.id))

\* C3: parseQRData returns null for every payload whose type code is none of
\* LOC, ARE, SEC, ITE, PRE.
C3_UnknownCodeIsNull ==
    (parsed # ParseNotRun /\ TypeCodeOf(qr.payload) \notin TypeCodes) => parsed = ParseNull

\* C4: parseQRData, isValidQRData and hexToQRData never throw: every input
\* yields a value.
C4_NeverThrows ==
    /\ parsed.status # "throw"
    /\ valid \in {"notrun", "true", "false"}
    /\ unhex # URIError

\* The pairs of the cleaned hex text are not all two hex digits, or one
\* character is left over.
BadHex(h) ==
    LET clean == ToUpperCase(StripWhiteSpace(h)) IN
    \/ Len(clean) % 2 # 0
    \/ \E k \in 1..(Len(clean) \div 2) :
          ~(IsHexDigit(clean[2 * k - 1]) /\ IsHexDigit(clean[2 * k]))

\* C5: for every payload p made by generateQRData or generatePreQRCode, with
\* any name and any prefix, hexToQRData(qrDataToHex(p)) = p, also when the hex
\* went through formatHexForDisplay.
C5_HexRoundTrip ==
    (hex.src = "qrDataToHex" /\ unhex # NotRun) => unhex = qr.payload

\* C6: hexToQRData returns null whenever the cleaned input has odd length or
\* holds a pair that is not two hex digits.
C6_BadHexIsNull ==
    (unhex # NotRun /\ BadHex(hex.text)) => unhex = Null

----------------------------------------------------------------------------
(* The claims about the pool of pre-generated codes (Spec). *)

\* The collection of the inventory that holds the entities of a type.
CollectionOf(d, type) ==
    CASE type = STR_location -> d.locations
      [] type = STR_area -> d.areas
      [] type = STR_section -> d.sections
      [] type = STR_item -> d.items

\* What C7 says of the entries an updateXQR(id, v) call finds unassigned with
\* payload v, of the entries with another payload, and of the entity.
C7_Effect ==
    (last'.op = "updateQR") =>
        /\ Len(preGeneratedQRs') = Len(preGeneratedQRs)
        /\ \A i \in 1..Len(preGeneratedQRs) :
              /\ (preGeneratedQRs[i].qrData = last'.qr /\ preGeneratedQRs[i].assignedTo = Null) =>
                    preGeneratedQRs'[i] = [preGeneratedQRs[i] EXCEPT !.assignedTo = last'.id,
                                                                    !.assignedType = last'.etype]
              /\ (preGeneratedQRs[i].qrData # last'.qr) => preGeneratedQRs'[i] = preGeneratedQRs[i]
        /\ LET coll == CollectionOf(data', last'.etype) IN
           \A j \in 1..Len(coll) : coll[j].id = last'.id => coll[j].qrData = last'.qr
C7_EffectAlways == [][C7_Effect]_vars

\* C7: after updateXQR(id, v) where v is the payload of an unassigned pool
\* entry, that entry is assigned to id with the entity's type, the entity with
\* that id holds v, and every other pool entry is as it was; when no pool
\* entry holds v, the pool is as it was.
C7_AssignmentEffect ==
    [][(last'.op = "updateQR") =>
        LET hit == {i \in 1..Len(preGeneratedQRs) :
                        /\ preGeneratedQRs[i].qrData = last'.qr
                        /\ preGeneratedQRs[i].assignedTo = Null}
            coll == CollectionOf(data', last'.etype)
        IN  /\ Len(preGeneratedQRs') = Len(preGeneratedQRs)
            /\ (hit # {}) =>
                  /\ \A i \in hit :
                        preGeneratedQRs'[i] = [preGeneratedQRs[i] EXCEPT
                                                  !.assignedTo = last'.id,
                                                  !.assignedType = last'.etype]
                  /\ \A i \in (1..Len(preGeneratedQRs)) \ hit :
                        preGeneratedQRs'[i] = preGeneratedQRs[i]
                  /\ \A j \in 1..Len(coll) : coll[j].id = last'.id => coll[j].qrData = last'.qr
            /\ (\A i \in 1..Len(preGeneratedQRs) : preGeneratedQRs[i].qrData # last'.qr) =>
                  preGeneratedQRs' = preGeneratedQRs]_vars

\* The scenario of C7: of three pool entries the second one was given to an
\* item; only the second is assigned, and the item holds its payload.
C7_Scenario ==
    /\ last.op = "updateQR"
    /\ last.etype = STR_item
    /\ Len(preGeneratedQRs) = 3
    /\ last.qr = preGeneratedQRs[2].qrData
    /\ \E j \in 1..Len(data.items) : data.items[j].id = last.id /\ data.items[j].qrData = last.qr
    /\ preGeneratedQRs[2].assignedTo = last.id
    /\ preGeneratedQRs[2].assignedType = STR_item
    /\ preGeneratedQRs[1].assignedTo = Null
    /\ preGeneratedQRs[3].assignedTo = Null

\* C8: once a pool entry is assigned, no updateXQR call by a different entity
\* with the same payload changes it.
C8_AssignedOnce ==
    [][(last'.op = "updateQR") =>
        \A i \in 1..Len(preGeneratedQRs) :
            (preGeneratedQRs[i].assignedTo # Null /\ preGeneratedQRs[i].assignedTo # last'.id) =>
                (Len(preGeneratedQRs') >= i /\ preGeneratedQRs'[i] = preGeneratedQRs[i])]_vars

\* C9: each pool entry has assignedTo and assignedType both null or both set.
C9_BothOrNeither ==
    \A i \in 1..Len(preGeneratedQRs) :
        (preGeneratedQRs[i].assignedTo = Null) <=> (preGeneratedQRs[i].assignedType = Null)

\* The payload is [prefix-]PRE:<uuid>.
IsPrePayload(payload, prefix) ==
    \E n \in 1..MaxUuid :
        payload = (IF Truthy(prefix) THEN prefix \o <<Dash>> ELSE <<>>)
                  \o STR_PRE \o <<Colon>> \o generateUUID(n)

\* What C10 says of generateBulkQRs(count, prefix) except that the new payloads
\* pass isValidQRData.
C10_Appended ==
    (last'.op = "generateBulkQRs") =>
        LET old == Len(preGeneratedQRs)
            new == preGeneratedQRs'
        IN  /\ Len(new) = old + last'.count
            /\ SubSeq(new, 1, old) = preGeneratedQRs
            /\ \A i \in (old + 1)..(old + last'.count) :
                  /\ IsPrePayload(new[i].qrData, last'.prefix)
                  /\ new[i].prefix = (IF Truthy(last'.prefix) THEN last'.prefix ELSE Null)
                  /\ new[i].assignedTo = Null
                  /\ new[i].assignedType = Null
                  /\ \A j \in (old + 1)..(old + last'.count) :
                        i # j => new[i].qrData # new[j].qrData
C10_AppendedAlways == [][C10_Appended]_vars

\* C10: generateBulkQRs(count, prefix) appends exactly count new entries and
\* leaves the others as they were; the new entries have pairwise distinct
\* payloads [prefix-]PRE:<uuid>, each passes isValidQRData, all carry the same
\* prefix (or null) and none is assigned.
C10_GenerateBulk ==
    [][/\ C10_Appended
       /\ (last'.op = "generateBulkQRs") =>
             \A i \in (Len(preGeneratedQRs) + 1)..Len(preGeneratedQRs') :
                 isValidQRData(preGeneratedQRs'[i].qrData)]_vars

----------------------------------------------------------------------------
(* The claims about restoreFromBackup (Spec). *)

\* The backup the last restoreFromBackup call was given.
LastBackup == Backups[last'.backup]

\* `new` is `old` followed by the entries of `from` whose key (the field id
\* or qrData) `old` does not hold, each key once, the first entry of `from`
\* that has it.
MergedFrom(old, from, new, key) ==
    LET ext == SubSeq(new, Len(old) + 1, Len(new))
        oldKeys == {old[i][key] : i \in 1..Len(old)}
    IN  /\ Len(new) >= Len(old)
        /\ SubSeq(new, 1, Len(old)) = old
        /\ \A i, j \in 1..Len(ext) : ext[i][key] = ext[j][key] => i = j
        /\ {ext[i][key] : i \in 1..Len(ext)} = {from[j][key] : j \in 1..Len(from)} \ oldKeys
        /\ \A i \in 1..Len(ext) :
              \E k \in 1..Len(from) :
                  /\ ext[i] = from[k]
                  /\ \A m \in 1..(k - 1) : from[m][key] # from[k][key]

----------------------------------------------------------------------------
(* The claims about the deletions (Spec). *)

\* `new` is `old` without the entries whose field `key` is id, the others as
\* they were and in their order.
Without(old, new, key, id) ==
    LET keep == {i \in 1..Len(old) : old[i][key] # id} IN
    /\ Len(new) = Cardinality(keep)
    /\ \A i \in keep :
          new[Cardinality({j \in keep : j <= i})] = old[i]

----------------------------------------------------------------------------
(* The claim about prefixes (SpecCodec). *)

\* What C20 says of the payloads whose prefix holds no ':'.
C20_PlainPrefixDecoded ==
    (/\ qr.src \in {"generateQRData", "generatePreQRCode"}
     /\ parsed # ParseNotRun
     /\ ~(Truthy(qr.prefix) /\ Includes(qr.prefix, Colon))) =>
        /\ parsed.status = "ok"
        /\ parsed.type = qr.type
        /\ parsed.prefix = (IF Truthy(qr.prefix) THEN qr.prefix ELSE Undefined)

\* C20: for every prefix given to generateQRData or generatePreQRCode,
\* parseQRData applied to the payload returns that prefix (none when none was
\* given) and the right type; a prefix may itself hold '-'.
C20_PrefixDecoded ==
    (qr.src \in {"generateQRData", "generatePreQRCode"} /\ parsed # ParseNotRun) =>
        /\ parsed.status = "ok"
        /\ parsed.type = qr.type
        /\ parsed.prefix = (IF Truthy(qr.prefix) THEN qr.prefix ELSE Undefined)

----------------------------------------------------------------------------
(* The claims about the backup format (SpecBackup). *)

\* The file at hand as BackupData, and its version.
FileData == AsBackupData(file)
FileVersion == Get(file, "version").s

\* C13: migrateBackupData on a version "1.0" backup gives every item quantity
\* 1 and condition 'good' where it had none, keeps an item's quantity and
\* condition where it had them and all its other fields, leaves every
\* location, area, section and pool entry as it was, and sets the version to
\* the current one.
C13_MigrationDefaults ==
    (migrated # NoBackup /\ FileVersion = STR_1_0) =>
        LET old == FileData.inventory.items
            new == migrated.inventory.items
        IN  /\ migrated.version = BACKUP_VERSION
            /\ migrated.inventory.locations = FileData.inventory.locations
            /\ migrated.inventory.areas = FileData.inventory.areas
            /\ migrated.inventory.sections = FileData.inventory.sections
            /\ migrated.preGeneratedQRs = FileData.preGeneratedQRs
            /\ Len(new) = Len(old)
            /\ \A i \in 1..Len(old) :
                  /\ DOMAIN new[i] = DOMAIN old[i] \cup {"quantity", "condition"}
                  /\ \A k \in DOMAIN old[i] : new[i][k] = old[i][k]
                  /\ "quantity" \notin DOMAIN old[i] => new[i].quantity = Num(1)
                  /\ "condition" \notin DOMAIN old[i] => new[i].condition = STR_good

\* A version "1.0" file with an item of quantity 3 and an item without a
\* quantity was migrated.
C13_Witness ==
    /\ migrated # NoBackup
    /\ FileVersion = STR_1_0
    /\ migrated.version = STR_2_0
    /\ Len(migrated.inventory.items) = 2
    /\ FileData.inventory.items[1].quantity = Num(3)
    /\ migrated.inventory.items[1].quantity = Num(3)
    /\ "quantity" \notin DOMAIN FileData.inventory.items[2]
    /\ migrated.inventory.items[2].quantity = Num(1)
    /\ migrated.inventory.items[2].condition = STR_good
    /\ Len(migrated.preGeneratedQRs) = 1

\* C14: migrateBackupData(migrateBackupData(d)) = migrateBackupData(d) for
\* every valid backup d, and data at the current version is returned as it is.
C14_MigrationIdempotent ==
    /\ (migrated2 # NoBackup) => migrated2 = migrated
    /\ (migrated # NoBackup /\ FileVersion = BACKUP_VERSION) => migrated = FileData

\* A version "1.0" file that the migration changed was migrated twice.
C14_Witness ==
    /\ migrated2 # NoBackup
    /\ FileVersion = STR_1_0
    /\ migrated # FileData
    /\ Len(migrated.inventory.items) = 2
    /\ migrated2 = migrated

\* The parts of a version, and whether version v is newer than version w.
MajorPart(v) == Number(Split(v, Dot)[1])
MinorPart(v) == IF Len(Split(v, Dot)) >= 2 THEN Number(Split(v, Dot)[2]) ELSE 0
IsVersion(v) == MajorPart(v) # NaN /\ MinorPart(v) # NaN
VersionNewer(v, w) ==
    /\ IsVersion(v)
    /\ \/ MajorPart(v) > MajorPart(w)
       \/ MajorPart(v) = MajorPart(w) /\ MinorPart(v) > MinorPart(w)

\* C15: checkBackupCompatibility returns compatible: false with a non-empty
\* warning list for every backup whose version is newer than the current one,
\* a newer minor version included, and compatible: true otherwise.
C15_NewerIsIncompatible ==
    (compat # NoCompat) =>
        IF VersionNewer(FileVersion, BACKUP_VERSION)
        THEN compat.compatible = FALSE /\ compat.warnings # <<>>
        ELSE compat.compatible = TRUE

\* What C15 says when only the major part is compared.
C15_NewerMajorIsIncompatible ==
    (compat # NoCompat) =>
        IF IsVersion(FileVersion) /\ MajorPart(FileVersion) > MajorPart(BACKUP_VERSION)
        THEN compat.compatible = FALSE /\ compat.warnings # <<>>
        ELSE compat.compatible = TRUE

\* C16: a backup whose version is newer than the supported one is never
\* applied: along importBackup and performImport the live inventory and the
\* pool stay as they were.
C16_NewerIsRefused ==
    [][(/\ Get(file, "version").t = "string"
        /\ VersionNewer(FileVersion, BACKUP_VERSION)) =>
            /\ data' = data
            /\ preGeneratedQRs' = preGeneratedQRs]_vars

\* What the claim calls well formed.
IsObjectValue(x) == x.t \in {"object", "array"}
WellFormed(d) ==
    /\ IsObjectValue(d)
    /\ Get(d, "version").t = "string"
    /\ Get(d, "exportedAt").t = "string"
    /\ IsObjectValue(Get(d, "inventory"))
    /\ \A k \in {"locations", "areas", "sections", "items"} :
          Get(Get(d, "inventory"), k).t = "array"
    /\ Get(d, "preGeneratedQRs").t \in {"undefined", "array"}

\* C17: validateBackupData(data) is true exactly when data is a non-null
\* object, version and exportedAt are strings, inventory is an object whose
\* locations, areas, sections and items are arrays, and preGeneratedQRs is
\* absent or an array.
C17_ValidIffWellFormed ==
    (validated # "notrun") => ((validated = "true") <=> WellFormed(file))

\* A file without the member preGeneratedQRs was accepted.
C17_Witness ==
    /\ validated = "true"
    /\ Get(file, "preGeneratedQRs") = JUndefined
    /\ Len(Get(Get(file, "inventory"), "items").a) > 0

----------------------------------------------------------------------------
(* The claim about EditQRModal (SpecCodec). *)

\* C24: EditQRModal calls onSave only with a payload for which isValidQRData
\* is true: typed hex that hexToQRData turns to null or to a payload that is
\* not valid, and a scanned payload that is not valid, never reach onSave.
C24_GateBeforeSave ==
    /\ modal.saved # NotRun => isValidQRData(modal.saved)
    /\ (/\ modal.hexSubmitted
        /\ LET qrData == hexToQRData(StripWhiteSpace(hex.text))
           IN  qrData = Null \/ ~isValidQRData(qrData)) => modal.via # "hex"
    /\ (modal.scanHandled /\ ~isValidQRData(qr.payload)) =>
           (modal.scannedData = Null /\ modal.via # "scan")

\* A payload made by generateQRData was scanned, accepted and confirmed.
C24_Witness ==
    /\ modal.scanHandled
    /\ modal.via = "scan"
    /\ modal.saved = qr.payload
    /\ qr.src = "generateQRData"

----------------------------------------------------------------------------
(* The claims about failing writes and overlapping calls (SpecAsync). *)

\* Whether the entity of the given type and id holds the payload, and whether
\* the pool entry of the payload is assigned to the id.
EntityHolds(inventory, etype, id, qrData) ==
    \E e \in AllEntities(inventory) : e.type = etype /\ e.id = id /\ e.qrData = qrData
PoolAssigned(pool, qrData, id) ==
    \E i \in 1..Len(pool) : pool[i].qrData = qrData /\ pool[i].assignedTo = id

\* C21: the entity QR update and the pool reconciliation are one
\* transaction: after updateXQR(id, v) with v in the pool, either the
\* entity's new qrData and the pool entry's assignment are both persisted or
\* neither is; when the inventory write fails the pool entry is not marked.
C21_Transaction ==
    (/\ Len(calls) = 1
     /\ calls[1].pc = "done"
     /\ calls[1].op = "updateQR"
     /\ calls[1].qr \in QrDatas(calls[1].seen.pool)) =>
        (EntityHolds(storage.inventory, calls[1].etype, calls[1].id, calls[1].qr)
            <=> PoolAssigned(storage.pool, calls[1].qr, calls[1].id))

\* What holds of one updateXQR call none of whose writes fails.
C21_BothWhenNoWriteFails ==
    (/\ Len(calls) = 1
     /\ calls[1].pc = "done"
     /\ calls[1].op = "updateQR"
     /\ ~calls[1].failed) =>
        /\ EntityHolds(storage.inventory, calls[1].etype, calls[1].id, calls[1].qr)
        /\ PoolAssigned(storage.pool, calls[1].qr, calls[1].id)

\* C22: when two updateXQR calls for two different entities and two
\* different unassigned pool payloads overlap (the second starts before the
\* first has written the pool), then once both have finished both pool
\* entries are assigned and both entities hold their new qrData.
C22_NoLostAssignment ==
    (/\ Len(calls) = 2
     /\ \A c \in 1..2 : /\ calls[c].pc = "done"
                        /\ calls[c].op = "updateQR"
                        /\ ~calls[c].failed
                        /\ ~PoolAssigned(calls[c].seen.pool, calls[c].qr, calls[c].id)
     /\ calls[1].id # calls[2].id
     /\ calls[1].qr # calls[2].qr
     /\ ~calls[2].awaited) =>
        \A c \in 1..2 :
            /\ PoolAssigned(preGeneratedQRs, calls[c].qr, calls[c].id)
            /\ PoolAssigned(storage.pool, calls[c].qr, calls[c].id)
            /\ EntityHolds(data, calls[c].etype, calls[c].id, calls[c].qr)
            /\ EntityHolds(storage.inventory, calls[c].etype, calls[c].id, calls[c].qr)

\* C26: when two mutating operations are started from the same rendered
\* state, each awaited (addItem called twice in a loop), the persisted and
\* the in-memory inventory afterwards hold the effect of both.
C26_NoLostUpdate ==
    (/\ Len(calls) = 2
     /\ \A c \in 1..2 : /\ calls[c].pc = "done"
                        /\ calls[c].op = "addItem"
                        /\ ~calls[c].failed
     /\ calls[2].awaited
     /\ calls[2].seen = calls[1].seen) =>
        \A c \in 1..2 : /\ calls[c].id \in Ids(data.items)
                        /\ calls[c].id \in Ids(storage.inventory.items)

\* What holds when the hook has rendered anew between the two calls.
C26_BothAfterRender ==
    (/\ Len(calls) = 2
     /\ \A c \in 1..2 : /\ calls[c].pc = "done"
                        /\ calls[c].op = "addItem"
                        /\ ~calls[c].failed
     /\ calls[2].awaited
     /\ calls[2].seen.data = calls[1].newData) =>
        \A c \in 1..2 : /\ calls[c].id \in Ids(data.items)
                        /\ calls[c].id \in Ids(storage.inventory.items)

----------------------------------------------------------------------------
(* The claim about the round trip of a backup (SpecBackup). *)

----------------------------------------------------------------------------
(* The claims about the inventory as a whole (Spec). *)

\* C25: for every entity created by addLocation, addArea, addSection or
\* addItem, the id decoded from its qrData equals the entity's own id.
C25_PayloadNamesEntity ==
    [][last'.op \in {"addLocation", "addArea", "addSection", "addItem"} =>
          \E e \in AllEntities(data') :
              /\ e.id = last'.id
              /\ parseQRData(e.qrData).status = "ok"
              /\ parseQRData(e.qrData).id = e.id]_vars

\* What holds of a created entity: its payload parses to its type and name,
\* with an id of its own.
C25_PayloadNamesTypeAndName ==
    [][last'.op \in {"addLocation", "addArea", "addSection", "addItem"} =>
          \E e \in AllEntities(data') :
              /\ e.id = last'.id
              /\ parseQRData(e.qrData).status = "ok"
              /\ parseQRData(e.qrData).type = e.type
              /\ parseQRData(e.qrData).name = e.name
              /\ parseQRData(e.qrData).id # e.id]_vars

\* Every assigned pool entry names an entity of the collection of its
\* assignedType that holds the entry's payload.
PoolConsistent(d, pool) ==
    \A i \in 1..Len(pool) :
        pool[i].assignedTo # Null =>
            /\ pool[i].assignedType \in EntityTypes
            /\ \E e \in AllEntities(d) : /\ e.type = pool[i].assignedType
                                         /\ e.id = pool[i].assignedTo
                                         /\ e.qrData = pool[i].qrData

\* C27: each pool entry with assignedTo not null names an existing entity of
\* the collection given by assignedType whose qrData is the entry's; this
\* is kept by updateXQR (also with an id that matches no entity), by a second
\* QR edit of the same entity, and by the four deletions.
C27_PoolConsistencyKept ==
    [][(/\ PoolConsistent(data, preGeneratedQRs)
        /\ last'.op \in {"updateQR", "deleteLocation", "deleteArea", "deleteSection",
                         "deleteItem"}) =>
           PoolConsistent(data', preGeneratedQRs')]_vars

\* What is kept: an updateXQR call with the id of an entity and a payload
\* that is unassigned in the pool, or in no pool, leaves the pool consistent
\* when the entity holds no pool payload yet.
C27_FirstAssignmentKeeps ==
    [][(/\ PoolConsistent(data, preGeneratedQRs)
        /\ last'.op = "updateQR"
        /\ \E e \in AllEntities(data) :
              /\ e.type = last'.etype
              /\ e.id = last'.id
              /\ e.qrData \notin QrDatas(preGeneratedQRs)
        /\ \A i \in 1..Len(preGeneratedQRs) :
              preGeneratedQRs[i].qrData = last'.qr => preGeneratedQRs[i].assignedTo = Null) =>
           PoolConsistent(data', preGeneratedQRs')]_vars

\* No two entries of the sequence have the same value of the member.
UniqueBy(s, key) == \A i, j \in 1..Len(s) : i # j => s[i][key] # s[j][key]

Hierarchy(d) ==
    /\ \A i \in 1..Len(d.areas) : d.areas[i].locationId \in Ids(d.locations)
    /\ \A i \in 1..Len(d.sections) :
          \E j \in 1..Len(d.areas) : /\ d.areas[j].id = d.sections[i].areaId
                                     /\ d.areas[j].locationId = d.sections[i].locationId
    /\ \A i \in 1..Len(d.items) :
          /\ \E j \in 1..Len(d.areas) : /\ d.areas[j].id = d.items[i].areaId
                                        /\ d.areas[j].locationId = d.items[i].locationId
          /\ d.items[i].sectionId # Null =>
                \E j \in 1..Len(d.sections) : /\ d.sections[j].id = d.items[i].sectionId
                                              /\ d.sections[j].areaId = d.items[i].areaId

====
